---- MODULE Spec2Model ----
(***************************************************************************)
(* Cell_Image_Analyzer: the Output workspace's incremental preview (sheet   *)
(* cache, debounce timer) and export, the Groups tab's grouper, the Pickle  *)
(* DataFile tab's Start New, load and save, and the image loaders, fraction *)
(* chart and command line of the figure code, as state machines.            *)
(*                                                                          *)
(* Strings that the code indexes, splits or compares (file names, group     *)
(* keys) are sequences of one-character strings; all other strings are      *)
(* TLA+ strings.                                                            *)
(***************************************************************************)
EXTENDS Integers, Sequences, FiniteSets, TLC

VARIABLES
    \* ---- OutputWorkspace (output_workspace.py) ----
    get_pickle_data_callback, \* TRUE once set_pickle_data_callback was called
    dataframe,                \* OutputWorkspace._dataframe (None or a table)
    groups_button,            \* groups_button.isChecked() (Groups / Singles)
    group_toggles,            \* _group_toggles: group name -> isChecked()
    rendered_sheets,          \* _rendered_sheets, in dict insertion order
    sheets_layout,            \* sheet widgets of sheets_layout after the placeholder
    force_full_rebuild,       \* _force_full_rebuild
    preview_cancelled,        \* _preview_cancelled
    logscale_toggle,          \* logscale_toggle.isChecked()
    norm_toggle,              \* norm_toggle.isChecked()
    timer_active,             \* _group_toggle_debounce_timer.isActive()
    timer_remaining,          \* ms until the debounce timer times out
    pc,                       \* position of a running _update_preview
    groups_to_add,            \* groups the running pass still has to render
    progress,                 \* the QProgressDialog of the running pass
    \* ---- history variables of the Output workspace ----
    since_change,             \* ms since the last event that (re)started the timer
    burst_changes,            \* changes in the current burst (counted up to 2)
    burst_passes,             \* timer-triggered passes since the burst began
    option_state,             \* "changed" from an option change to the next pass,
                              \* "passed" from that pass to the next event
    roundtrip,                \* a toggle-off / toggle-on experiment being followed
    \* ---- GroupsTab (groups_tab.py) ----
    selected_files,           \* GroupsTab._selected_files
    group_toggle,             \* group_toggle.isChecked()
    selector,                 \* selector_combo.currentText()
    underscore_start, underscore_end,
    length_start, length_end,
    grouped_files,            \* the dict last returned by get_grouped_files
    \* ---- PickleDataFileTab (pickle_datafile_tab.py) ----
    sort_by_groups_checkbox,  \* sort_by_groups_checkbox.isChecked()
    tab_dataframe,            \* PickleDataFileTab._dataframe
    current_pickle_path,      \* PickleDataFileTab._current_pickle_path
    has_unsaved_changes,      \* PickleDataFileTab._has_unsaved_changes
    disk,                     \* pickle files on disk: path -> table or None
    \* ---- history variables of PickleDataFileTab ----
    pickle_note,              \* the last load: its outcome and what it was given
    saved_note,               \* the table last written by Save, and where
    \* ---- OutputWorkspace: what the user is shown ----
    preview_placeholder,      \* the text of preview_placeholder, "hidden" when hidden
    output_note,              \* the last refresh or pass, and whether it raised
    \* ---- OutputWorkspace: inside one turn of a batch loop ----
    current_group,            \* group_name of the turn of _update_preview under way
    cancel_note,              \* history: what was done when Cancel was clicked
    \* ---- OutputWorkspace: Export As... ----
    export_pc,                \* where _on_export / _export_sheets stands
    export_groups,            \* selected_groups: the checked groups, in toggle order
    export_idx,               \* turns of the export loop that are over
    export_path,              \* the target folder
    export_format,            \* "png" or "svg"
    exported_count,           \* sheets saved
    failed_sheets,            \* the entries of the failure list
    export_canceled,          \* progress.wasCanceled()
    folders,                  \* the folders that exist
    sheet_files,              \* the sheet files that exist
    export_message,           \* the last message box of the export
    export_note,              \* history: what the user did in the export dialogs
    export_failures,          \* history: groups whose sheet failed in this batch
    \* ---- one call of a function of the figure code ----
    call,                     \* the function and its argument
    returned                  \* what it returned

outputVars == <<get_pickle_data_callback, dataframe, groups_button, group_toggles,
                rendered_sheets, sheets_layout, force_full_rebuild,
                preview_cancelled, logscale_toggle, norm_toggle, timer_active,
                timer_remaining, pc, groups_to_add, progress>>
historyVars == <<since_change, burst_changes, burst_passes, option_state, roundtrip>>
groupsVars == <<selected_files, group_toggle, selector, underscore_start,
                underscore_end, length_start, length_end, grouped_files>>
pickleVars == <<sort_by_groups_checkbox, tab_dataframe, current_pickle_path,
                has_unsaved_changes, disk>>
noteVars == <<pickle_note, saved_note>>
displayVars == <<preview_placeholder, output_note>>
passVars == <<current_group, cancel_note>>
exportVars == <<export_pc, export_groups, export_idx, export_path, export_format,
                exported_count, failed_sheets, export_canceled, folders, sheet_files,
                export_message, export_note, export_failures>>
figureVars == <<call, returned>>
auxVars == <<displayVars, passVars, exportVars, figureVars>>
\* What the export handlers leave alone.
besideExport == <<outputVars, historyVars, groupsVars, pickleVars, noteVars,
                  displayVars, current_group, figureVars>>
vars == <<outputVars, historyVars, groupsVars, pickleVars, noteVars, auxVars>>

None == "None"

(***************************************************************************)
(* Bounds of the model.                                                     *)
(***************************************************************************)
TickMs == 200          \* granularity of the passage of time
MaxFiles == 2          \* longest list of selected files
MaxUnderscore == 2     \* largest value tried in the underscore spin boxes
MaxLength == 3         \* largest value tried in the character spin boxes

(***************************************************************************)
(* Character strings.                                                       *)
(***************************************************************************)
\* Code points of the characters used, for Python's str comparison.
Ord(c) ==
    CASE c = "." -> 46 [] c = "1" -> 49 [] c = "_" -> 95 [] c = "a" -> 97
      [] c = "b" -> 98 [] c = "c" -> 99 [] c = "d" -> 100 [] c = "e" -> 101
      [] c = "f" -> 102 [] c = "g" -> 103 [] c = "i" -> 105 [] c = "l" -> 108
      [] c = "n" -> 110 [] c = "o" -> 111 [] c = "p" -> 112 [] c = "r" -> 114
      [] c = "t" -> 116 [] c = "u" -> 117 [] c = "x" -> 120

\* s < t for Python strings (lexicographic on code points).
RECURSIVE StrLess(_, _)
StrLess(s, t) ==
    IF t = <<>> THEN FALSE
    ELSE IF s = <<>> THEN TRUE
    ELSE IF Ord(Head(s)) # Ord(Head(t)) THEN Ord(Head(s)) < Ord(Head(t))
    ELSE StrLess(Tail(s), Tail(t))

\* s[lo:hi] of Python for 0 <= lo, hi (0-indexed, hi excluded, clipped).
Slice(s, lo, hi) ==
    LET h == IF hi > Len(s) THEN Len(s) ELSE hi
    IN  IF lo >= h THEN <<>> ELSE SubSeq(s, lo + 1, h)

\* str.split(sep) for a one-character separator: always at least one part.
RECURSIVE Split(_, _)
Split(s, sep) ==
    IF \A i \in 1..Len(s) : s[i] # sep THEN <<s>>
    ELSE LET i == CHOOSE j \in 1..Len(s) :
                      s[j] = sep /\ \A k \in 1..(j - 1) : s[k] # sep
         IN  <<SubSeq(s, 1, i - 1)>> \o Split(SubSeq(s, i + 1, Len(s)), sep)

\* sep.join(parts)
RECURSIVE Join(_, _)
Join(parts, sep) ==
    IF parts = <<>> THEN <<>>
    ELSE IF Len(parts) = 1 THEN parts[1]
    ELSE parts[1] \o <<sep>> \o Join(Tail(parts), sep)

\* os.path.splitext(filename)[0] for a name without directory: the extension
\* starts at the last dot, unless only dots precede that dot.
splitext_root(filename) ==
    LET dots == {i \in 1..Len(filename) : filename[i] = "."}
    IN  IF dots = {} THEN filename
        ELSE LET dotIndex == CHOOSE i \in dots : \A j \in dots : j <= i
             IN  IF \E k \in 1..(dotIndex - 1) : filename[k] # "."
                 THEN SubSeq(filename, 1, dotIndex - 1)
                 ELSE filename

(***************************************************************************)
(* File paths: a directory and a file name.                                 *)
(***************************************************************************)
basename(filepath) == filepath.name
dirname(filepath) == filepath.dir

Name_a_b == <<"a", "_", "b", ".", "t", "i", "f">>
Name_a_c == <<"a", "_", "c", ".", "t", "i", "f">>
Name__a == <<"_", "a", ".", "t", "i", "f">>
Name_all_1 == <<"a", "l", "l", "_", "1", ".", "t", "i", "f">>
Name_b == <<"b">>
Name_ungrouped_x ==
    <<"_", "u", "n", "g", "r", "o", "u", "p", "e", "d", "_", "x", ".", "t", "i", "f">>

\* The files the File Import tab can hand over.
FilePaths ==
    { [dir |-> "/d1", name |-> Name_a_b], [dir |-> "/d2", name |-> Name_a_b],
      [dir |-> "/d1", name |-> Name_a_c], [dir |-> "/d1", name |-> Name__a],
      [dir |-> "/d1", name |-> Name_all_1], [dir |-> "/d2", name |-> Name_b],
      [dir |-> "/d1", name |-> Name_ungrouped_x] }

FileLists == UNION { [1..n -> FilePaths] : n \in 0..MaxFiles }

(***************************************************************************)
(* GroupsTab                                                                *)
(***************************************************************************)
SELECTOR_UNDERSCORE == "by underscore"
SELECTOR_LENGTH == "by length"
UNGROUPED == <<"_", "u", "n", "g", "r", "o", "u", "p", "e", "d">>
ALL == <<"a", "l", "l">>

NoKey == [found |-> FALSE, key |-> <<>>]
SomeKey(k) == [found |-> TRUE, key |-> k]

\* Variant of the underscore branch that takes the segment at `end` too.
extract_underscore_key_inclusive(name_without_ext, start, end) ==
    LET parts == Split(name_without_ext, "_")
    IN  IF start >= Len(parts) \/ end > Len(parts) \/ start >= end
        THEN NoKey
        ELSE SomeKey(Join(Slice(parts, start, end + 1), "_"))

\* _extract_group_key, the underscore branch.
extract_underscore_key(name_without_ext, start, end) ==
    LET parts == Split(name_without_ext, "_")
    IN  IF start >= Len(parts) \/ end > Len(parts) \/ start >= end
        THEN NoKey
        ELSE SomeKey(Join(Slice(parts, start, end), "_"))

\* Variant of the length branch that does not check `end` against the length.
extract_length_key_unchecked(name_without_ext, ui_start, ui_end) ==
    LET start == ui_start - 1
        end == ui_end
    IN  IF start < 0 \/ start >= end
        THEN NoKey
        ELSE SomeKey(Slice(name_without_ext, start, end))

\* Variant of the length branch that excludes the character at `end`.
extract_length_key_exclusive(name_without_ext, ui_start, ui_end) ==
    LET start == ui_start - 1
        end == ui_end - 1
    IN  IF start < 0 \/ end > Len(name_without_ext) \/ start >= end
        THEN NoKey
        ELSE SomeKey(Slice(name_without_ext, start, end))

\* _extract_group_key, the length branch: ui_start and ui_end are the values
\* of the spin boxes.
extract_length_key(name_without_ext, ui_start, ui_end) ==
    LET start == ui_start - 1
        end == ui_end
    IN  IF start < 0 \/ end > Len(name_without_ext) \/ start >= end
        THEN NoKey
        ELSE SomeKey(Slice(name_without_ext, start, end))

\* GroupsTab._extract_group_key under the current criteria.
extract_group_key(filename) ==
    LET name_without_ext == splitext_root(filename)
    IN  IF selector = SELECTOR_UNDERSCORE
        THEN extract_underscore_key(name_without_ext, underscore_start, underscore_end)
        ELSE IF selector = SELECTOR_LENGTH
        THEN extract_length_key(name_without_ext, length_start, length_end)
        ELSE NoKey

\* `if key:` in get_grouped_files: None and the empty string are both falsy.
key_is_truthy(k) == k.found /\ k.key # <<>>

\* A dict is the sequence of its items [key, files] in insertion order.
DictKeys(d) == {d[i].key : i \in 1..Len(d)}
DictGet(d, k) == (CHOOSE i \in 1..Len(d) : d[i].key = k)
\* groups[k].append(filepath) on a defaultdict(list)
DictAppend(d, k, filepath) ==
    IF k \in DictKeys(d)
    THEN [i \in 1..Len(d) |->
            IF d[i].key = k THEN [d[i] EXCEPT !.files = Append(@, filepath)] ELSE d[i]]
    ELSE Append(d, [key |-> k, files |-> <<filepath>>])

\* The loop of get_grouped_files over the first n selected files.
RECURSIVE group_files(_, _)
\* Variant that leaves out the files without a key, as _generate_preview's
\* dict of groups does.
group_files_drop(files, n) ==
    IF n = 0 THEN <<>>
    ELSE LET groups == group_files(files, n - 1)
             filepath == files[n]
             key == extract_group_key(basename(filepath))
         IN  IF key_is_truthy(key)
             THEN DictAppend(groups, key.key, filepath)
             ELSE groups

group_files(files, n) ==
    IF n = 0 THEN <<>>
    ELSE LET groups == group_files(files, n - 1)
             filepath == files[n]
             key == extract_group_key(basename(filepath))
         IN  IF key_is_truthy(key)
             THEN DictAppend(groups, key.key, filepath)
             ELSE DictAppend(groups, UNGROUPED, filepath)

\* GroupsTab.get_grouped_files
get_grouped_files ==
    IF ~group_toggle
    THEN <<[key |-> ALL, files |-> selected_files]>>
    ELSE group_files(selected_files, Len(selected_files))

NoDict == [none |-> TRUE]

(***************************************************************************)
(* Tables (pandas DataFrames): the ordered column names and the rows.       *)
(***************************************************************************)
NoneDF == [none |-> TRUE]
COL_FILENAME == "Filename"
COL_DIRECTORY == "Directory"
COL_GROUP == "Group"
COL_GROUP_ID == "Group_ID"
Columns(df) == {df.columns[i] : i \in 1..Len(df.columns)}

(***************************************************************************)
(* MainWindow / InputWorkspace: what Start New is handed.                   *)
(***************************************************************************)
\* InputWorkspace.get_selected_files: the File Import tab's selection, which
\* _on_files_selected copies into the Groups tab on every change.
get_selected_files == selected_files

\* MainWindow._get_input_workspace_data
get_input_workspace_data ==
    LET grouped == get_grouped_files
    IN  [selected_files |-> get_selected_files,
         grouped_files |-> grouped,
         grouping_enabled |->
             \/ Len(grouped) > 1
             \/ (Len(grouped) = 1 /\ ALL \notin DictKeys(grouped))]

(***************************************************************************)
(* PickleDataFileTab                                                        *)
(***************************************************************************)
\* sorted(grouped_files.items()): insertion sort on the keys (keys are unique).
RECURSIVE sorted_items(_)
sorted_items(d) ==
    IF d = <<>> THEN <<>>
    ELSE LET rest == sorted_items(Tail(d))
             x == Head(d)
             before == SelectSeq(rest, LAMBDA y : StrLess(y.key, x.key))
             after == SelectSeq(rest, LAMBDA y : ~StrLess(y.key, x.key))
         IN  before \o <<x>> \o after

\* The rows appended for one group: one per file, all with base_directory.
group_rows(files, base_directory, group_name, group_num) ==
    [i \in 1..Len(files) |->
        [Filename |-> basename(files[i]), Directory |-> base_directory,
         Group |-> group_name, Group_ID |-> group_num]]

\* The loop of _on_start_new over the first n items of the sorted dict:
\* the rows so far, group_number_map and current_group_num.
RECURSIVE grouped_rows(_, _, _)
\* Variant that numbers a named group by its position among all the items.
grouped_rows_by_position(items, n, base_directory) ==
    IF n = 0
    THEN [data |-> <<>>, group_number_map |-> <<>>, current_group_num |-> 0]
    ELSE LET acc == grouped_rows(items, n - 1, base_directory)
             group_name == items[n].key
             files == items[n].files
         IN  IF group_name = UNGROUPED
             THEN [acc EXCEPT !.data = @ \o group_rows(files, base_directory, <<>>, 0)]
             ELSE [data |-> acc.data \o
                            group_rows(files, base_directory, group_name, n),
                   group_number_map |-> acc.group_number_map,
                   current_group_num |-> n]

grouped_rows(items, n, base_directory) ==
    IF n = 0
    THEN [data |-> <<>>, group_number_map |-> <<>>, current_group_num |-> 0]
    ELSE LET acc == grouped_rows(items, n - 1, base_directory)
             group_name == items[n].key
             files == items[n].files
         IN  IF group_name = UNGROUPED
             THEN [acc EXCEPT !.data = @ \o group_rows(files, base_directory, <<>>, 0)]
             ELSE LET known == \E i \in 1..Len(acc.group_number_map) :
                                   acc.group_number_map[i].name = group_name
                      num == IF known THEN acc.current_group_num
                             ELSE acc.current_group_num + 1
                      map == IF known THEN acc.group_number_map
                             ELSE Append(acc.group_number_map,
                                         [name |-> group_name, num |-> num])
                      group_num == (CHOOSE e \in {map[i] : i \in 1..Len(map)} :
                                        e.name = group_name).num
                  IN  [data |-> acc.data \o
                                group_rows(files, base_directory, group_name, group_num),
                       group_number_map |-> map,
                       current_group_num |-> num]

\* The table _on_start_new builds from the Input workspace's data.
start_new_table(input_data) ==
    LET base_directory == dirname(input_data.selected_files[1])
        rows == IF input_data.grouping_enabled /\ input_data.grouped_files # <<>>
                THEN LET items == sorted_items(input_data.grouped_files)
                     IN  grouped_rows(items, Len(items), base_directory).data
                ELSE group_rows(input_data.selected_files, base_directory, <<>>, 0)
    IN  [columns |-> <<COL_FILENAME, COL_DIRECTORY, COL_GROUP, COL_GROUP_ID>>,
         rows |-> rows]

\* The sort key of _apply_group_sorting, over the columns that exist.
row_less(df, r1, r2) ==
    LET by_id == COL_GROUP_ID \in Columns(df)
        by_group == COL_GROUP \in Columns(df)
    IN  IF by_id /\ r1.Group_ID # r2.Group_ID THEN r1.Group_ID < r2.Group_ID
        ELSE IF by_group /\ r1.Group # r2.Group THEN StrLess(r1.Group, r2.Group)
        ELSE StrLess(r1.Filename, r2.Filename)

RECURSIVE sort_rows(_, _)
sort_rows(df, rows) ==
    IF rows = <<>> THEN <<>>
    ELSE LET rest == sort_rows(df, Tail(rows))
             x == Head(rows)
             before == SelectSeq(rest, LAMBDA y : row_less(df, y, x))
             after == SelectSeq(rest, LAMBDA y : ~row_less(df, y, x))
         IN  before \o <<x>> \o after

\* PickleDataFileTab._apply_group_sorting
apply_group_sorting(df) ==
    IF df = NoneDF THEN df ELSE [df EXCEPT !.rows = sort_rows(df, df.rows)]

PicklePaths == {"/d1/analysis_data.pkl"}

\* No load, or no save, is being followed.
NoNote == [none |-> TRUE]

\* DataFrame.to_pickle: a DataFrame is pickled as its column index and, column
\* by column, the values it holds.
to_pickle(df) ==
    [columns |-> df.columns,
     length |-> Len(df.rows),
     values |-> [c \in Columns(df) |-> [i \in 1..Len(df.rows) |-> df.rows[i][c]]]]

\* pd.read_pickle of a file that holds a pickled DataFrame.
\* Variant that hands the rows back last row first.
read_pickle_reversed(blob) ==
    [columns |-> blob.columns,
     rows |-> [i \in 1..blob.length |->
                  [c \in {blob.columns[k] : k \in 1..Len(blob.columns)} |->
                      blob.values[c][blob.length + 1 - i]]]]

read_pickle(blob) ==
    [columns |-> blob.columns,
     rows |-> [i \in 1..blob.length |->
                  [c \in {blob.columns[k] : k \in 1..Len(blob.columns)} |->
                      blob.values[c][i]]]]

\* PickleDataFileTab._on_start_new: chosen is the answer of the save dialog
\* ("" when it is cancelled), write_ok whether to_pickle succeeds.
OnStartNew(chosen, write_ok) ==
    LET input_data == get_input_workspace_data
        built == start_new_table(input_data)
        df == IF sort_by_groups_checkbox THEN apply_group_sorting(built) ELSE built
    IN  /\ input_data.selected_files # <<>>
        /\ tab_dataframe' = df
        /\ IF chosen # "" /\ write_ok
           THEN /\ disk' = [disk EXCEPT ![chosen] = to_pickle(df)]
                /\ current_pickle_path' = chosen
                /\ has_unsaved_changes' = FALSE
                /\ saved_note' = NoNote
           ELSE UNCHANGED <<disk, current_pickle_path, has_unsaved_changes, saved_note>>
        /\ pickle_note' = [op |-> "start_new", outcome |-> "start_new", chosen |-> chosen,
                           write_ok |-> write_ok]
        /\ grouped_files' = [dict |-> input_data.grouped_files]
        /\ UNCHANGED <<selected_files, group_toggle, selector, underscore_start,
                       underscore_end, length_start, length_end>>
        /\ UNCHANGED <<sort_by_groups_checkbox, outputVars, historyVars, auxVars>>

\* _on_start_new with no file selected: a warning, nothing else.
OnStartNewNoFiles ==
    /\ get_input_workspace_data.selected_files = <<>>
    /\ UNCHANGED vars

\* A caller of GroupsTab.get_grouped_files receives the dict.
GetGroupedFiles ==
    /\ grouped_files' = [dict |-> get_grouped_files]
    /\ UNCHANGED <<selected_files, group_toggle, selector, underscore_start,
                   underscore_end, length_start, length_end>>
    /\ UNCHANGED <<pickleVars, noteVars, outputVars, historyVars, auxVars>>

\* The orders sort_values(by=Filename) may produce: the default sort is not
\* stable, rows of equal Filename come out in any order.
RECURSIVE RowOrders(_)
RowOrders(rows) ==
    IF rows = <<>> THEN {<<>>}
    ELSE UNION { { <<rows[i]>> \o t :
                   t \in RowOrders([j \in 1..(Len(rows) - 1) |->
                                         IF j < i THEN rows[j] ELSE rows[j + 1]]) } :
                 i \in 1..Len(rows) }

sorted_by_filename(rows) ==
    { t \in RowOrders(rows) :
        \A i \in 1..(Len(t) - 1) : ~StrLess(t[i + 1].Filename, t[i].Filename) }

\* PickleDataFileTab._on_sort_toggled: the user flips the checkbox.
OnSortToggled ==
    LET checked == ~sort_by_groups_checkbox
    IN  /\ sort_by_groups_checkbox' = checked
        /\ IF tab_dataframe # NoneDF /\ tab_dataframe.rows # <<>>
           THEN /\ IF checked
                   THEN tab_dataframe' = apply_group_sorting(tab_dataframe)
                   ELSE \E t \in sorted_by_filename(tab_dataframe.rows) :
                            tab_dataframe' = [tab_dataframe EXCEPT !.rows = t]
                /\ has_unsaved_changes' = TRUE
           ELSE UNCHANGED <<tab_dataframe, has_unsaved_changes>>
        /\ pickle_note' = NoNote
        /\ UNCHANGED <<current_pickle_path, disk, saved_note, groupsVars, outputVars,
                       historyVars, auxVars>>

\* DataFrame.insert(loc, column, value) with a scalar value: the column goes
\* to position loc (0-indexed) and every row receives the value.
insert_column(df, loc, column, value) ==
    [columns |-> SubSeq(df.columns, 1, loc) \o <<column>> \o
                 SubSeq(df.columns, loc + 1, Len(df.columns)),
     rows |-> [i \in 1..Len(df.rows) |->
                  [c \in DOMAIN df.rows[i] \cup {column} |->
                      IF c = column THEN value ELSE df.rows[i][c]]]]

\* The directories the user can pick in _prompt_for_directory.
Directories == {"/d1", "/d2"}

\* The body shared by _on_load_existing and load_pickle_from_path: directory
\* is the answer of _prompt_for_directory ("" when cancelled), write_ok
\* whether to_pickle succeeds.  A failed to_pickle leaves the file as it was.
\* emit: pickle_loaded.emit(filepath), the last statement of a load.
\* Variant that goes on after a failed to_pickle.
load_pickle_unsaved(filepath, directory, write_ok) ==
    IF disk[filepath] = NoneDF THEN [outcome |-> "error", emit |-> FALSE]
    ELSE LET df == read_pickle(disk[filepath])
         IN  IF COL_FILENAME \notin Columns(df) THEN [outcome |-> "invalid", emit |-> FALSE]
             ELSE IF COL_DIRECTORY \in Columns(df)
             THEN [outcome |-> "loaded", df |-> df, disk |-> disk, emit |-> TRUE]
             ELSE IF directory = "" THEN [outcome |-> "cancelled", emit |-> FALSE]
             ELSE LET fixed == insert_column(df, 1, COL_DIRECTORY, directory)
                  IN  [outcome |-> "backfilled", df |-> fixed, emit |-> TRUE,
                       disk |-> IF write_ok
                                THEN [disk EXCEPT ![filepath] = to_pickle(fixed)]
                                ELSE disk]

load_pickle(filepath, directory, write_ok) ==
    IF disk[filepath] = NoneDF THEN [outcome |-> "error", emit |-> FALSE]
    ELSE LET df == read_pickle(disk[filepath])
         IN  IF COL_FILENAME \notin Columns(df) THEN [outcome |-> "invalid", emit |-> FALSE]
             ELSE IF COL_DIRECTORY \in Columns(df)
             THEN [outcome |-> "loaded", df |-> df, disk |-> disk, emit |-> TRUE]
             ELSE IF directory = "" THEN [outcome |-> "cancelled", emit |-> FALSE]
             ELSE LET fixed == insert_column(df, 1, COL_DIRECTORY, directory)
                  IN  IF write_ok
                      THEN [outcome |-> "backfilled", df |-> fixed, emit |-> TRUE,
                            disk |-> [disk EXCEPT ![filepath] = to_pickle(fixed)]]
                      ELSE [outcome |-> "write_failed", emit |-> FALSE]

\* The load of filepath requested by op, with its effect on the tab.
LoadPickle(op, filepath, directory, write_ok) ==
    LET result == load_pickle(filepath, directory, write_ok)
    IN  /\ IF result.outcome \in {"loaded", "backfilled"}
           THEN /\ tab_dataframe' = result.df
                /\ current_pickle_path' = filepath
                /\ has_unsaved_changes' = FALSE
                /\ disk' = result.disk
           ELSE UNCHANGED <<tab_dataframe, current_pickle_path, has_unsaved_changes, disk>>
        /\ pickle_note' = [op |-> op, outcome |-> result.outcome, path |-> filepath,
                           directory |-> directory, before |-> disk[filepath],
                           write_ok |-> write_ok, emitted |-> result.emit]
        /\ saved_note' = IF result.outcome = "backfilled" THEN NoNote ELSE saved_note
        /\ UNCHANGED <<sort_by_groups_checkbox, groupsVars, outputVars, historyVars, auxVars>>

\* PickleDataFileTab._on_load_existing: the open dialog returns an existing
\* file (a cancelled dialog changes nothing).
OnLoadExisting(filepath, directory, write_ok) ==
    /\ disk[filepath] # NoneDF
    /\ LoadPickle("load_existing", filepath, directory, write_ok)

\* PickleDataFileTab.load_pickle_from_path: a load requested from another
\* workspace, for a path that may hold no file.
LoadPickleFromPath(filepath, directory, write_ok) ==
    LoadPickle("load_pickle_from_path", filepath, directory, write_ok)

\* PickleDataFileTab._on_save
OnSave(write_ok) ==
    /\ tab_dataframe # NoneDF
    /\ current_pickle_path # None
    /\ IF write_ok
       THEN /\ disk' = [disk EXCEPT ![current_pickle_path] = to_pickle(tab_dataframe)]
            /\ has_unsaved_changes' = FALSE
            /\ saved_note' = [path |-> current_pickle_path, table |-> tab_dataframe]
       ELSE UNCHANGED <<disk, has_unsaved_changes, saved_note>>
    /\ pickle_note' = NoNote
    /\ UNCHANGED <<tab_dataframe, current_pickle_path, sort_by_groups_checkbox>>
    /\ UNCHANGED <<groupsVars, outputVars, historyVars, auxVars>>

\* PickleDataFileTab.update_dataframe: another tab has saved df at filepath
\* and hands both over.
UpdateDataframe(filepath) ==
    /\ disk[filepath] # NoneDF
    /\ tab_dataframe' = read_pickle(disk[filepath])
    /\ current_pickle_path' = filepath
    /\ has_unsaved_changes' = FALSE
    /\ pickle_note' = NoNote
    /\ UNCHANGED <<sort_by_groups_checkbox, disk, saved_note>>
    /\ UNCHANGED <<groupsVars, outputVars, historyVars, auxVars>>

\* _on_save with no table or no path: it returns at once.
OnSaveNothing ==
    /\ tab_dataframe = NoneDF \/ current_pickle_path = None
    /\ UNCHANGED vars

(***************************************************************************)
(* OutputWorkspace: the tables its data callback can return.                *)
(***************************************************************************)
FullColumns ==
    <<COL_FILENAME, COL_DIRECTORY, COL_GROUP, COL_GROUP_ID, "Threshold", "Fraction">>
NewColumns == <<COL_FILENAME, COL_DIRECTORY, COL_GROUP, COL_GROUP_ID>>
TableRow(filename, group, group_id) ==
    [Filename |-> filename, Directory |-> "/d1", Group |-> group, Group_ID |-> group_id]

\* A processed table: groups b (4 files), c, a, and one ungrouped file.
TableThree ==
    [columns |-> FullColumns,
     rows |-> << TableRow(<<"b", "a">>, <<"b">>, 3), TableRow(<<"b", "b">>, <<"b">>, 3),
                 TableRow(<<"c", "a">>, <<"c">>, 1), TableRow(<<"x">>, <<>>, 0),
                 TableRow(<<"b", "c">>, <<"b">>, 3), TableRow(<<"a", "a">>, <<"a">>, 2),
                 TableRow(<<"b", "d">>, <<"b">>, 3) >>]
\* Another processed table, with other files and numbers for the groups.
TableTwo ==
    [columns |-> FullColumns,
     rows |-> << TableRow(<<"c", "b">>, <<"c">>, 2), TableRow(<<"a", "b">>, <<"a">>, 1) >>]
\* A table as Start New leaves it: no Threshold column yet.
TableNew ==
    [columns |-> NewColumns,
     rows |-> << TableRow(<<"a", "a">>, <<"a">>, 1), TableRow(<<"x">>, <<>>, 0) >>]
TableEmpty == [columns |-> FullColumns, rows |-> <<>>]
\* A processed table that has groups but no Group_ID column.
TableNoGroupId ==
    [columns |-> <<COL_FILENAME, COL_DIRECTORY, COL_GROUP, "Threshold", "Fraction">>,
     rows |-> << [Filename |-> <<"a", "a">>, Directory |-> "/d1", Group |-> <<"a">>] >>]
TablePool == {NoneDF, TableThree, TableTwo, TableNew, TableEmpty, TableNoGroupId}

DebounceInterval == 400
ProgressRowLimit == 3

(***************************************************************************)
(* OutputWorkspace: the handlers' effects as functions of the state.        *)
(***************************************************************************)
Selected(toggles) == {g \in DOMAIN toggles : toggles[g]}
GroupRows(df, group_name) == SelectSeq(df.rows, LAMBDA r : r.Group = group_name)
CachedNames(rendered) == {rendered[i].name : i \in 1..Len(rendered)}

\* QTimer.start() on the single-shot debounce timer: (re)starts the interval.
\* Variant that leaves a running timer alone.
timer_start_if_inactive(active, remaining) ==
    IF active THEN [active |-> active, remaining |-> remaining]
    ELSE [active |-> TRUE, remaining |-> DebounceInterval]

timer_start(active, remaining) ==
    [active |-> TRUE, remaining |-> DebounceInterval]

\* _on_display_option_changed: the value given to _force_full_rebuild.
\* Variant that leaves the flag as it is.
force_after_option_change_kept(force) == force

force_after_option_change(force) == TRUE

\* QLayout.removeWidget: takes the widget out of the layout where it is.
\* Variant that leaves the widget in the layout.
remove_widget_kept(layout, sheet) == layout

remove_widget(layout, sheet) ==
    IF \E i \in 1..Len(layout) : layout[i] = sheet
    THEN LET i == CHOOSE j \in 1..Len(layout) :
                      layout[j] = sheet /\ \A k \in 1..(j - 1) : layout[k] # sheet
         IN  SubSeq(layout, 1, i - 1) \o SubSeq(layout, i + 1, Len(layout))
    ELSE layout

RECURSIVE remove_widgets(_, _)
remove_widgets(layout, sheets) ==
    IF sheets = <<>> THEN layout
    ELSE remove_widgets(remove_widget(layout, Head(sheets)), Tail(sheets))

\* sorted(items, key=group_id): stable.
RECURSIVE sorted_by_group_id(_)
sorted_by_group_id(items) ==
    IF items = <<>> THEN <<>>
    ELSE LET rest == sorted_by_group_id(Tail(items))
             x == Head(items)
             before == SelectSeq(rest, LAMBDA y : y.group_id < x.group_id)
             after == SelectSeq(rest, LAMBDA y : ~(y.group_id < x.group_id))
         IN  before \o <<x>> \o after

Sheets(items) == [i \in 1..Len(items) |-> items[i].sheet]

\* OutputWorkspace._reorder_sheets: the layout it leaves.
\* Variant that re-adds the sheets in the order of the cache.
reorder_sheets_unsorted(rendered, layout) ==
    IF rendered = <<>> THEN layout
    ELSE remove_widgets(layout, Sheets(rendered)) \o Sheets(rendered)

\* Variant that sorts the sheets by group name.
reorder_sheets_by_name(rendered, layout) ==
    IF rendered = <<>> THEN layout
    ELSE LET by_name == [i \in 1..Len(rendered) |->
                            [rendered[i] EXCEPT !.group_id = Ord(rendered[i].name[1])]]
             sorted_groups == sorted_by_group_id(by_name)
         IN  remove_widgets(layout, Sheets(rendered)) \o Sheets(sorted_groups)

reorder_sheets(rendered, layout) ==
    IF rendered = <<>> THEN layout
    ELSE LET sorted_groups == sorted_by_group_id(rendered)
         IN  remove_widgets(layout, Sheets(rendered)) \o Sheets(sorted_groups)

\* OutputWorkspace._create_sheet / _render_sheet_content: the widget, with
\* what it shows. `stale` is history: an option changed after it was drawn.
create_sheet(group_name, group_id, group_rows_) ==
    [group |-> group_name, group_id |-> group_id,
     files |-> [i \in 1..Len(group_rows_) |-> group_rows_[i].Filename],
     log |-> logscale_toggle, norm |-> norm_toggle, stale |-> FALSE]

\* _update_file_overview raises KeyError at line 680.
update_file_overview_raises(df) ==
    /\ df # NoneDF
    /\ df.rows # <<>>
    /\ COL_GROUP \in Columns(df)
    /\ COL_GROUP_ID \notin Columns(df)

\* _update_file_overview: the toggles it builds, all unchecked.
\* (The toggles are cleared first, also when line 680 raises.)
\* Variant that builds the toggles checked.
update_file_overview_checked(df) ==
    IF df = NoneDF \/ df.rows = <<>> THEN [g \in {} |-> FALSE]
    ELSE IF COL_GROUP \notin Columns(df) THEN [g \in {} |-> FALSE]
    ELSE IF COL_GROUP_ID \notin Columns(df) THEN [g \in {} |-> FALSE]
    ELSE [g \in {df.rows[i].Group : i \in 1..Len(df.rows)} \ {<<>>} |-> TRUE]

update_file_overview(df) ==
    IF df = NoneDF \/ df.rows = <<>> THEN [g \in {} |-> FALSE]
    ELSE IF COL_GROUP \notin Columns(df) THEN [g \in {} |-> FALSE]
    ELSE IF COL_GROUP_ID \notin Columns(df) THEN [g \in {} |-> FALSE]
    ELSE [g \in {df.rows[i].Group : i \in 1..Len(df.rows)} \ {<<>>} |-> FALSE]

\* _update_preview, line 776: the cached groups to discard.
\* Variant that discards nothing.
groups_to_remove_none(currently_rendered, selected_groups) == {}

groups_to_remove(currently_rendered, selected_groups) ==
    currently_rendered \ selected_groups

\* The result of a pass that ended: nothing left to add.
PassEnded(rendered, layout, force, message) ==
    [rendered |-> rendered, layout |-> layout, force |-> force,
     pc |-> "idle", to_add |-> {}, progress |-> "none", message |-> message]

\* _update_preview from its start to the loop over groups_to_add.
update_preview(df, toggles, force, rendered, layout) ==
    IF df = NoneDF \/ df.rows = <<>> THEN PassEnded(<<>>, <<>>, force, "No data available")
    ELSE IF {COL_FILENAME, COL_DIRECTORY, COL_GROUP, COL_GROUP_ID} \ Columns(df) # {}
    THEN PassEnded(<<>>, <<>>, force, "Missing columns")
    ELSE IF "Threshold" \notin Columns(df)
    THEN PassEnded(<<>>, <<>>, force, "No threshold data found")
    ELSE IF Selected(toggles) = {} THEN PassEnded(<<>>, <<>>, force, "No groups selected")
    ELSE LET selected_groups == Selected(toggles)
             rendered0 == IF force THEN <<>> ELSE rendered
             layout0 == IF force THEN <<>> ELSE layout
             currently_rendered == CachedNames(rendered0)
             to_remove == groups_to_remove(currently_rendered, selected_groups)
             to_add == selected_groups \ currently_rendered
             removed == SelectSeq(rendered0, LAMBDA e : e.name \in to_remove)
             rendered1 == SelectSeq(rendered0, LAMBDA e : e.name \notin to_remove)
             layout1 == remove_widgets(layout0, Sheets(removed))
             show_progress ==
                 \/ Cardinality(to_add) > 1
                 \/ \E g \in to_add : Len(GroupRows(df, g)) > ProgressRowLimit
         IN  IF to_add = {}
             THEN PassEnded(rendered1, reorder_sheets(rendered1, layout1), FALSE, "hidden")
             ELSE [rendered |-> rendered1, layout |-> layout1, force |-> FALSE,
                   pc |-> "adding", to_add |-> to_add,
                   progress |-> IF show_progress THEN "shown" ELSE "none",
                   message |-> "hidden"]

\* _rendered_sheets[group_name] = (group_id, sheet)
cache_put(rendered, group_name, group_id, sheet) ==
    IF group_name \in CachedNames(rendered)
    THEN [i \in 1..Len(rendered) |->
            IF rendered[i].name = group_name
            THEN [name |-> group_name, group_id |-> group_id, sheet |-> sheet]
            ELSE rendered[i]]
    ELSE Append(rendered, [name |-> group_name, group_id |-> group_id, sheet |-> sheet])

(***************************************************************************)
(* OutputWorkspace: history of the debounce bursts, of the option changes   *)
(* and of a toggle-off / toggle-on round trip.                              *)
(***************************************************************************)
Min(a, b) == IF a < b THEN a ELSE b
Max(a, b) == IF a > b THEN a ELSE b

\* A change that (re)starts the timer: it continues the burst when it comes
\* within the delay of the previous change, and begins a new burst otherwise.
NoteChange ==
    /\ since_change' = 0
    /\ burst_changes' = IF since_change < DebounceInterval
                        THEN Min(burst_changes + 1, 2) ELSE 1
    /\ burst_passes' = IF since_change < DebounceInterval THEN burst_passes ELSE 0

NoteTimerPass ==
    /\ burst_passes' = Min(burst_passes + 1, 2)
    /\ UNCHANGED <<since_change, burst_changes>>

\* An _update_preview call begins: it is the next pass after an option change.
PassedIfChanged == IF option_state = "changed" THEN "passed" ELSE option_state
\* Any other event ends the moment "right after that pass".
NoneIfPassed == IF option_state = "passed" THEN "none" ELSE option_state

Displayed(layout) ==
    [i \in 1..Len(layout) |-> [group |-> layout[i].group, group_id |-> layout[i].group_id]]
CachedIds(rendered) ==
    {[group |-> rendered[i].name, group_id |-> rendered[i].group_id] :
        i \in 1..Len(rendered)}

\* The round trip followed when the toggle of group g is flipped.
RoundtripOnToggle(g) ==
    IF group_toggles[g] /\ ~timer_active /\ ~preview_cancelled /\ pc = "idle"
    THEN [phase |-> "off", group |-> g, shown |-> Displayed(sheets_layout),
          cached |-> CachedIds(rendered_sheets)]
    ELSE IF roundtrip.phase = "off" /\ roundtrip.group = g
    THEN [roundtrip EXCEPT !.phase = "on"]
    ELSE [phase |-> "none"]

(***************************************************************************)
(* OutputWorkspace: the events.  The event loop delivers an event when no   *)
(* handler runs (pc = "idle") and where a running pass calls processEvents. *)
(* While a pass shows its modal progress dialog, only that dialog's Cancel  *)
(* button takes input; a pass without the dialog (one group of at most      *)
(* ProgressRowLimit rows) lets every pending event in at line 838, after    *)
(* its sheet (pc = "pumping"), and the handlers run inside the pass.        *)
(***************************************************************************)
Dispatching == pc \in {"idle", "pumping"} /\ progress # "shown"

ApplyPass(result) ==
    /\ rendered_sheets' = result.rendered
    /\ sheets_layout' = result.layout
    /\ force_full_rebuild' = result.force
    /\ pc' = IF pc = "pumping"
             THEN (IF result.pc = "idle" THEN "pumping" ELSE "nested")
             ELSE result.pc
    /\ groups_to_add' = result.to_add
    /\ progress' = result.progress
    /\ preview_cancelled' = FALSE
    /\ preview_placeholder' = result.message
    /\ cancel_note' = NoNote
    /\ UNCHANGED current_group

\* OutputWorkspace.set_pickle_data_callback
SetPickleDataCallback ==
    /\ pc = "idle"
    /\ ~get_pickle_data_callback
    /\ get_pickle_data_callback' = TRUE
    /\ UNCHANGED <<dataframe, groups_button, group_toggles, rendered_sheets,
                   sheets_layout, force_full_rebuild, preview_cancelled,
                   logscale_toggle, norm_toggle, timer_active, timer_remaining,
                   pc, groups_to_add, progress>>
    /\ UNCHANGED <<historyVars, groupsVars, pickleVars, noteVars, auxVars>>

\* _show_singles_placeholder
ShowSinglesPlaceholder ==
    /\ group_toggles' = [g \in {} |-> FALSE]
    /\ rendered_sheets' = <<>>
    /\ sheets_layout' = <<>>
    /\ preview_placeholder' = "Singles mode is not yet implemented"
    /\ UNCHANGED <<pc, groups_to_add, progress, preview_cancelled, passVars>>

\* OutputWorkspace.refresh_data (on_activated): df is what the data callback
\* returns.
RefreshData(df) ==
    /\ Dispatching
    /\ dataframe' = IF get_pickle_data_callback THEN df ELSE dataframe
    /\ IF groups_button
       THEN /\ group_toggles' = update_file_overview(dataframe')
            /\ IF update_file_overview_raises(dataframe')
               THEN /\ force_full_rebuild' = TRUE
                    /\ UNCHANGED <<rendered_sheets, sheets_layout, pc, groups_to_add,
                                   progress, preview_cancelled, preview_placeholder,
                                   passVars>>
               ELSE ApplyPass(update_preview(dataframe', group_toggles', TRUE,
                                             rendered_sheets, sheets_layout))
       ELSE /\ ShowSinglesPlaceholder
            /\ force_full_rebuild' = TRUE
    /\ output_note' = [op |-> "refresh",
                       raised |-> groups_button /\ update_file_overview_raises(dataframe'),
                       preview |-> groups_button /\ ~update_file_overview_raises(dataframe'),
                       inside |-> pc = "pumping"]
    /\ option_state' = IF groups_button /\ ~update_file_overview_raises(dataframe')
                       THEN PassedIfChanged ELSE NoneIfPassed
    /\ roundtrip' = [phase |-> "none"]
    /\ UNCHANGED <<get_pickle_data_callback, groups_button, logscale_toggle,
                   norm_toggle, timer_active, timer_remaining>>
    /\ UNCHANGED <<since_change, burst_changes, burst_passes, groupsVars, pickleVars, noteVars,
                   exportVars, figureVars>>

\* _on_file_selection_changed: the Groups (0) or Singles (1) button is clicked.
OnFileSelectionChanged(button_id) ==
    /\ Dispatching
    /\ groups_button' = (button_id = 0)
    /\ IF button_id = 0
       THEN /\ group_toggles' = update_file_overview(dataframe)
            /\ IF update_file_overview_raises(dataframe)
               THEN UNCHANGED <<rendered_sheets, sheets_layout, force_full_rebuild, pc,
                                groups_to_add, progress, preview_cancelled,
                                preview_placeholder, passVars>>
               ELSE ApplyPass(update_preview(dataframe, group_toggles', force_full_rebuild,
                                             rendered_sheets, sheets_layout))
       ELSE /\ ShowSinglesPlaceholder
            /\ UNCHANGED force_full_rebuild
    /\ output_note' = [op |-> IF button_id = 0 THEN "pass" ELSE "singles",
                       raised |-> button_id = 0 /\ update_file_overview_raises(dataframe),
                       preview |-> button_id = 0 /\ ~update_file_overview_raises(dataframe),
                       inside |-> pc = "pumping"]
    /\ option_state' = IF button_id = 0 /\ ~update_file_overview_raises(dataframe)
                       THEN PassedIfChanged ELSE NoneIfPassed
    /\ roundtrip' = [phase |-> "none"]
    /\ UNCHANGED <<get_pickle_data_callback, dataframe, logscale_toggle,
                   norm_toggle, timer_active, timer_remaining>>
    /\ UNCHANGED <<since_change, burst_changes, burst_passes, groupsVars, pickleVars, noteVars,
                   exportVars, figureVars>>

StartTimer ==
    LET t == timer_start(timer_active, timer_remaining)
    IN  /\ timer_active' = t.active
        /\ timer_remaining' = t.remaining

\* The user flips the toggle of group g: _on_group_toggle_changed.
OnGroupToggleChanged(g) ==
    /\ Dispatching
    /\ g \in DOMAIN group_toggles
    /\ group_toggles' = [group_toggles EXCEPT ![g] = ~@]
    /\ StartTimer
    /\ NoteChange
    /\ option_state' = NoneIfPassed
    /\ roundtrip' = RoundtripOnToggle(g)
    /\ UNCHANGED <<get_pickle_data_callback, dataframe, groups_button,
                   rendered_sheets, sheets_layout, force_full_rebuild,
                   preview_cancelled, logscale_toggle, norm_toggle, pc,
                   groups_to_add, progress>>
    /\ UNCHANGED <<groupsVars, pickleVars, noteVars, auxVars>>

MarkStale(sheet) == [sheet EXCEPT !.stale = TRUE]

\* The user flips Log-scale ("log") or Norm ("norm"): _on_display_option_changed.
OnDisplayOptionChanged(option) ==
    /\ Dispatching
    /\ IF option = "log"
       THEN logscale_toggle' = ~logscale_toggle /\ UNCHANGED norm_toggle
       ELSE norm_toggle' = ~norm_toggle /\ UNCHANGED logscale_toggle
    /\ force_full_rebuild' = force_after_option_change(force_full_rebuild)
    /\ StartTimer
    /\ NoteChange
    /\ option_state' = "changed"
    /\ roundtrip' = [phase |-> "none"]
    /\ rendered_sheets' = [i \in 1..Len(rendered_sheets) |->
                             [rendered_sheets[i] EXCEPT !.sheet = MarkStale(@)]]
    /\ sheets_layout' = [i \in 1..Len(sheets_layout) |-> MarkStale(sheets_layout[i])]
    /\ UNCHANGED <<get_pickle_data_callback, dataframe, groups_button, group_toggles,
                   preview_cancelled, pc, groups_to_add, progress>>
    /\ UNCHANGED <<groupsVars, pickleVars, noteVars, auxVars>>

\* _on_select_all (checked = TRUE) and _on_deselect_all (checked = FALSE)
OnSelectAll(checked) ==
    /\ Dispatching
    /\ group_toggles' = [g \in DOMAIN group_toggles |-> checked]
    /\ StartTimer
    /\ NoteChange
    /\ option_state' = NoneIfPassed
    /\ roundtrip' = [phase |-> "none"]
    /\ UNCHANGED <<get_pickle_data_callback, dataframe, groups_button,
                   rendered_sheets, sheets_layout, force_full_rebuild,
                   preview_cancelled, logscale_toggle, norm_toggle, pc,
                   groups_to_add, progress>>
    /\ UNCHANGED <<groupsVars, pickleVars, noteVars, auxVars>>

\* TickMs of time pass.
Tick ==
    /\ pc \notin {"pumping", "aborted"}
    /\ \/ timer_active /\ timer_remaining > 0
       \/ since_change < DebounceInterval
    /\ timer_remaining' = IF timer_active THEN Max(timer_remaining - TickMs, 0)
                          ELSE timer_remaining
    /\ since_change' = Min(since_change + TickMs, DebounceInterval)
    /\ UNCHANGED <<get_pickle_data_callback, dataframe, groups_button, group_toggles,
                   rendered_sheets, sheets_layout, force_full_rebuild,
                   preview_cancelled, logscale_toggle, norm_toggle, timer_active,
                   pc, groups_to_add, progress>>
    /\ UNCHANGED <<burst_changes, burst_passes, option_state, roundtrip>>
    /\ UNCHANGED <<groupsVars, pickleVars, noteVars, auxVars>>

\* The debounce timer times out: _on_debounced_group_toggle starts a pass.
OnDebouncedGroupToggle ==
    /\ Dispatching
    /\ timer_active
    /\ timer_remaining = 0
    /\ timer_active' = FALSE
    /\ ApplyPass(update_preview(dataframe, group_toggles, force_full_rebuild,
                                rendered_sheets, sheets_layout))
    /\ NoteTimerPass
    /\ option_state' = PassedIfChanged
    /\ output_note' = [op |-> "pass", raised |-> FALSE, preview |-> TRUE,
                       inside |-> pc = "pumping"]
    /\ UNCHANGED <<get_pickle_data_callback, dataframe, groups_button, group_toggles,
                   logscale_toggle, norm_toggle, timer_remaining, roundtrip>>
    /\ UNCHANGED <<groupsVars, pickleVars, noteVars, exportVars, figureVars>>

\* The end of a pass: the progress dialog is closed, the sheets reordered.
FinishPass(rendered, layout) ==
    /\ rendered_sheets' = rendered
    /\ sheets_layout' = reorder_sheets(rendered, layout)
    /\ pc' = "idle"
    /\ groups_to_add' = {}
    /\ progress' = "none"

\* The head of one turn of the loop of _update_preview over groups_to_add (a
\* set: the groups come in any order): the cancel check, then the progress
\* update, which lets the pending events in.
PassStep ==
    /\ pc = "adding"
    /\ IF progress = "canceled"
       THEN /\ preview_cancelled' = TRUE
            /\ FinishPass(rendered_sheets, sheets_layout)
            /\ UNCHANGED current_group
       ELSE /\ \E group_name \in groups_to_add : current_group' = group_name
            /\ pc' = "rendering"
            /\ UNCHANGED <<rendered_sheets, sheets_layout, groups_to_add, progress,
                           preview_cancelled>>
    /\ UNCHANGED <<get_pickle_data_callback, dataframe, groups_button, group_toggles,
                   force_full_rebuild, logscale_toggle, norm_toggle, timer_active,
                   timer_remaining>>
    /\ UNCHANGED <<historyVars, groupsVars, pickleVars, noteVars, displayVars, cancel_note,
                   exportVars, figureVars>>

\* The rest of the turn: the sheet of current_group is rendered and cached,
\* then the pending events are let in again.
PassRender ==
    /\ pc = "rendering"
    /\ LET group_name == current_group
           group_df == GroupRows(dataframe, group_name)
           group_id == group_df[1].Group_ID
           sheet == create_sheet(group_name, group_id, group_df)
           rendered == IF group_df = <<>> THEN rendered_sheets
                       ELSE cache_put(rendered_sheets, group_name, group_id, sheet)
           layout == IF group_df = <<>> THEN sheets_layout
                     ELSE Append(sheets_layout, sheet)
       IN  IF groups_to_add = {group_name} /\ progress = "none"
           THEN /\ rendered_sheets' = rendered
                /\ sheets_layout' = layout
                /\ groups_to_add' = {}
                /\ pc' = "pumping"
                /\ UNCHANGED progress
           ELSE IF groups_to_add = {group_name}
           THEN FinishPass(rendered, layout)
           ELSE /\ rendered_sheets' = rendered
                /\ sheets_layout' = layout
                /\ groups_to_add' = groups_to_add \ {group_name}
                /\ pc' = "adding"
                /\ UNCHANGED progress
    /\ UNCHANGED <<get_pickle_data_callback, dataframe, groups_button, group_toggles,
                   force_full_rebuild, preview_cancelled, logscale_toggle, norm_toggle,
                   timer_active, timer_remaining>>
    /\ current_group' = None
    /\ UNCHANGED <<historyVars, groupsVars, pickleVars, noteVars, displayVars, cancel_note,
                   exportVars, figureVars>>

\* processEvents at line 838 has returned in a pass without progress dialog:
\* the loop is over, the sheets are reordered.
ResumePass ==
    /\ pc = "pumping"
    /\ export_pc = "idle"
    /\ FinishPass(rendered_sheets, sheets_layout)
    /\ UNCHANGED <<get_pickle_data_callback, dataframe, groups_button, group_toggles,
                   force_full_rebuild, preview_cancelled, logscale_toggle, norm_toggle,
                   timer_active, timer_remaining>>
    /\ UNCHANGED <<historyVars, groupsVars, pickleVars, noteVars, auxVars>>

\* _create_sheet raises while the sheet of current_group is rendered (line
\* 830; nothing in _update_preview catches it): the exception leaves the
\* handler before the sheet is cached, the progress dialog is not closed and
\* the sheets are not reordered. PyQt then returns to the event loop when an
\* excepthook is installed, and aborts the program otherwise.
RenderRaises(survives) ==
    /\ pc = "rendering"
    /\ pc' = IF survives THEN "idle" ELSE "aborted"
    /\ groups_to_add' = {}
    /\ current_group' = None
    /\ output_note' = [op |-> "render", raised |-> TRUE, preview |-> FALSE,
                       inside |-> FALSE, group |-> current_group,
                       skipped |-> groups_to_add \ {current_group}]
    /\ roundtrip' = [phase |-> "none"]
    /\ UNCHANGED <<get_pickle_data_callback, dataframe, groups_button, group_toggles,
                   rendered_sheets, sheets_layout, force_full_rebuild,
                   preview_cancelled, logscale_toggle, norm_toggle, timer_active,
                   timer_remaining, progress>>
    /\ UNCHANGED <<since_change, burst_changes, burst_passes, option_state>>
    /\ UNCHANGED <<groupsVars, pickleVars, noteVars, preview_placeholder, cancel_note,
                   exportVars, figureVars>>

\* The progress dialog that such a pass left open is closed by its Cancel
\* button.
CancelOrphan ==
    /\ pc = "idle"
    /\ progress = "shown"
    /\ progress' = "none"
    /\ UNCHANGED <<get_pickle_data_callback, dataframe, groups_button, group_toggles,
                   rendered_sheets, sheets_layout, force_full_rebuild,
                   preview_cancelled, logscale_toggle, norm_toggle, timer_active,
                   timer_remaining, pc, groups_to_add>>
    /\ UNCHANGED <<historyVars, groupsVars, pickleVars, noteVars, auxVars>>

\* The user clicks Cancel in the progress dialog of the running pass; the
\* click comes in where the loop lets the events in.
CancelClicked ==
    /\ pc \in {"adding", "rendering"}
    /\ progress = "shown"
    /\ progress' = "canceled"
    /\ roundtrip' = [phase |-> "none"]
    /\ cancel_note' = [batch |-> "preview",
                       during |-> IF pc = "rendering" THEN {current_group} ELSE {},
                       done |-> CachedNames(rendered_sheets),
                       kept |-> {sheets_layout[i] : i \in 1..Len(sheets_layout)}]
    /\ UNCHANGED <<get_pickle_data_callback, dataframe, groups_button, group_toggles,
                   rendered_sheets, sheets_layout, force_full_rebuild,
                   preview_cancelled, logscale_toggle, norm_toggle, timer_active,
                   timer_remaining, pc, groups_to_add>>
    /\ UNCHANGED <<since_change, burst_changes, burst_passes, option_state>>
    /\ UNCHANGED <<groupsVars, pickleVars, noteVars, displayVars, current_group,
                   exportVars, figureVars>>

(***************************************************************************)
(* OutputWorkspace: Export As...                                            *)
(***************************************************************************)
MaxGroups == 11
FailedListLimit == 10

Repeat(c, n) == [i \in 1..n |-> c]
\* A table as Start New leaves it (no Threshold column), MaxGroups groups of
\* one file each.
TableMany ==
    [columns |-> NewColumns,
     rows |-> [i \in 1..MaxGroups |-> TableRow(Repeat("g", i), Repeat("g", i), i)]]

\* The names of the toggles in the order _update_file_overview creates them:
\* the rows' groups without duplicates and without "", by ascending Group_ID.
toggle_order(df) ==
    LET pairs == SelectSeq([i \in 1..Len(df.rows) |->
                              [name |-> df.rows[i].Group, group_id |-> df.rows[i].Group_ID,
                               first |-> \A j \in 1..(i - 1) :
                                            df.rows[j].Group # df.rows[i].Group]],
                           LAMBDA e : e.first /\ e.name # <<>>)
        sorted_groups == sorted_by_group_id(pairs)
    IN  [i \in 1..Len(sorted_groups) |-> sorted_groups[i].name]

\* str.strip()
RECURSIVE lstrip(_)
lstrip(text) == IF text # <<>> /\ Head(text) = " " THEN lstrip(Tail(text)) ELSE text
RECURSIVE rstrip(_)
rstrip(text) ==
    IF text # <<>> /\ text[Len(text)] = " " THEN rstrip(SubSeq(text, 1, Len(text) - 1))
    ELSE text
strip(text) == rstrip(lstrip(text))

invalid_chars == {"<", ">", ":", "\"", "/", "\\", "|", "?", "*"}

\* ExportDialog._on_accept: whether the dialog closes as accepted.
\* Variant that accepts every text.
on_accept_any(text) == "accept"

on_accept(text) ==
    LET folder_name == strip(text)
    IN  IF folder_name = <<>> THEN "Invalid Folder Name"
        ELSE IF \E i \in 1..Len(folder_name) : folder_name[i] \in invalid_chars
        THEN "Invalid Folder Name"
        ELSE "accept"

\* What the user can type as the folder name, and the one destination.
FolderTexts ==
    { <<>>, <<" ">>, <<"o">>, <<" ", "o", " ">>, <<"o", "/", "p">>, <<"o", "?">>, <<"*">> }
Destination == "/dest"
ExportFormats == {"png", "svg"}
path_join(directory, name) == [directory |-> directory, name |-> name]

NoMessage == [title |-> "none"]
NoExport == [selected |-> {}, accepted |-> FALSE, text |-> <<>>, existed |-> FALSE,
             confirmed |-> FALSE]

\* _render_sheet_content raises on a table without Threshold (line 935).
render_raises(df) == "Threshold" \notin Columns(df)

\* The summary after the loop (lines 1282-1303).
\* Variant that lists every failure.
failed_list_all(failed) == failed

failed_list(failed) == SubSeq(failed, 1, Min(Len(failed), FailedListLimit))

completion_message(count, failed) ==
    IF failed # <<>>
    THEN [title |-> "Export Complete with Warnings", exported |-> count,
          failed |-> Len(failed), listed |-> failed_list(failed),
          more |-> Max(Len(failed) - FailedListLimit, 0)]
    ELSE [title |-> "Export Complete", exported |-> count, failed |-> 0,
          listed |-> <<>>, more |-> 0]

\* The click on Export As..., up to the export dialog.
OnExport ==
    /\ Dispatching
    /\ export_pc = "idle"
    /\ LET selected == SelectSeq(toggle_order(dataframe), LAMBDA g : group_toggles[g])
       IN  /\ export_groups' = selected
           /\ export_note' = [NoExport EXCEPT !.selected = Selected(group_toggles)]
           /\ IF selected = <<>>
              THEN /\ export_message' = [title |-> "No Sheets to Export"]
                   /\ export_pc' = "idle"
              ELSE /\ export_message' = NoMessage
                   /\ export_pc' = "dialog"
    /\ cancel_note' = NoNote
    /\ UNCHANGED <<export_idx, export_path, export_format, exported_count, failed_sheets,
                   export_canceled, folders, sheet_files, export_failures>>
    /\ UNCHANGED besideExport

\* _export_sheets from its start to the loop.
start_export_pc == IF dataframe = NoneDF THEN "idle" ELSE "checking"

\* The Export button of the dialog, with `text` in the folder name field; when
\* the dialog is accepted, _on_export goes on to the target folder.
ExportDialogAccept(text, format, mkdir_ok) ==
    /\ export_pc = "dialog"
    /\ IF on_accept(text) # "accept"
       THEN /\ export_message' = [title |-> on_accept(text)]
            /\ UNCHANGED <<export_pc, export_path, export_format, folders, export_note>>
       ELSE LET target == path_join(Destination, strip(text))
            IN  /\ export_path' = target
                /\ export_format' = format
                /\ export_note' = [export_note EXCEPT !.accepted = TRUE, !.text = text,
                                                      !.existed = target \in folders]
                /\ IF target \in folders
                   THEN /\ export_pc' = "confirm"
                        /\ UNCHANGED <<folders, export_message>>
                   ELSE IF mkdir_ok
                   THEN /\ folders' = folders \cup {target}
                        /\ export_pc' = start_export_pc
                        /\ UNCHANGED export_message
                   ELSE /\ export_message' = [title |-> "Error"]
                        /\ export_pc' = "idle"
                        /\ UNCHANGED folders
    /\ export_idx' = 0
    /\ exported_count' = 0
    /\ failed_sheets' = <<>>
    /\ export_canceled' = FALSE
    /\ export_failures' = {}
    /\ UNCHANGED <<export_groups, sheet_files>>
    /\ UNCHANGED <<besideExport, cancel_note>>

\* Cancel in the export dialog.
ExportDialogReject ==
    /\ export_pc = "dialog"
    /\ export_pc' = "idle"
    /\ UNCHANGED <<export_groups, export_idx, export_path, export_format, exported_count,
                   failed_sheets, export_canceled, folders, sheet_files, export_message,
                   export_note, export_failures>>
    /\ UNCHANGED <<besideExport, cancel_note>>

\* The answer to "Folder Exists ... Overwrite?".
overwrite(reply) == reply = "Yes"

ExportConfirm(reply) ==
    /\ export_pc = "confirm"
    /\ export_note' = [export_note EXCEPT !.confirmed = (reply = "Yes")]
    /\ export_pc' = IF overwrite(reply) THEN start_export_pc ELSE "idle"
    /\ UNCHANGED <<export_groups, export_idx, export_path, export_format, exported_count,
                   failed_sheets, export_canceled, folders, sheet_files, export_message,
                   export_failures>>
    /\ UNCHANGED <<besideExport, cancel_note>>

\* progress.wasCanceled() in the export loop.
\* Variant that never sees the click.
wasCanceled_never == FALSE

wasCanceled == export_canceled

\* The head of one turn of the export loop: the cancel check, then
\* progress.setValue(idx), which lets the pending events in.
ExportCheck ==
    /\ export_pc = "checking"
    /\ IF wasCanceled
       THEN /\ export_message' = [title |-> "Export Cancelled"]
            /\ export_pc' = "idle"
       ELSE /\ export_pc' = "processing"
            /\ UNCHANGED export_message
    /\ UNCHANGED <<export_groups, export_idx, export_path, export_format, exported_count,
                   failed_sheets, export_canceled, folders, sheet_files, export_note,
                   export_failures>>
    /\ UNCHANGED <<besideExport, cancel_note>>

\* Cancel in the progress dialog of the export, let in by setValue.
ExportCancelClicked ==
    /\ export_pc = "processing"
    /\ ~export_canceled
    /\ export_canceled' = TRUE
    /\ cancel_note' = [batch |-> "export",
                       during |-> {export_groups[export_idx + 1]},
                       done |-> {export_groups[i] : i \in 1..export_idx},
                       kept |-> sheet_files]
    /\ UNCHANGED <<export_pc, export_groups, export_idx, export_path, export_format,
                   exported_count, failed_sheets, folders, sheet_files, export_message,
                   export_note, export_failures>>
    /\ UNCHANGED besideExport

\* The file of one sheet: f"{safe_group_name}_{group_id}.{export_format}".
sheet_file(group_name, group_id) ==
    [path |-> export_path, group |-> group_name, group_id |-> group_id,
     format |-> export_format]

\* The rest of the turn: the sheet of the group is rendered and saved.
ExportProcess(save_ok) ==
    /\ export_pc = "processing"
    /\ LET group_name == export_groups[export_idx + 1]
           group_df == GroupRows(dataframe, group_name)
           group_id == group_df[1].Group_ID
           fails == group_df = <<>> \/ render_raises(dataframe) \/ ~save_ok
           error == IF group_df = <<>> THEN "none"
                    ELSE IF render_raises(dataframe) THEN "KeyError" ELSE "OSError"
           failed == IF fails THEN Append(failed_sheets, [group |-> group_name,
                                                          error |-> error])
                     ELSE failed_sheets
           count == IF fails THEN exported_count ELSE exported_count + 1
       IN  /\ failed_sheets' = failed
           /\ exported_count' = count
           /\ export_failures' = IF fails THEN export_failures \cup {group_name}
                                 ELSE export_failures
           /\ sheet_files' = IF fails THEN sheet_files ELSE sheet_files \cup {sheet_file(group_name, group_id)}
           /\ export_idx' = export_idx + 1
           /\ IF export_idx + 1 = Len(export_groups)
              THEN /\ export_message' = completion_message(count, failed)
                   /\ export_pc' = "idle"
              ELSE /\ export_pc' = "checking"
                   /\ UNCHANGED export_message
    /\ UNCHANGED <<export_groups, export_path, export_format, export_canceled, folders,
                   export_note>>
    /\ UNCHANGED <<besideExport, cancel_note>>

NoCall == [fn |-> "none"]
NotCalled == [called |-> FALSE]
NothingCalled ==
    /\ call = NoCall
    /\ returned = NotCalled

ExportIdle ==
    /\ export_pc = "idle"
    /\ export_groups = <<>>
    /\ export_idx = 0
    /\ export_path = path_join(Destination, <<>>)
    /\ export_format = "png"
    /\ exported_count = 0
    /\ failed_sheets = <<>>
    /\ export_canceled = FALSE
    /\ sheet_files = {}
    /\ export_message = NoMessage
    /\ export_note = NoExport
    /\ export_failures = {}

(***************************************************************************)
(* The Input workspace and Start New: the inputs are drawn at the start,    *)
(* the operations are applied to them.                                      *)
(***************************************************************************)
OutputIdle ==
    /\ get_pickle_data_callback = FALSE
    /\ dataframe = NoneDF
    /\ groups_button = TRUE
    /\ group_toggles = [g \in {} |-> FALSE]
    /\ rendered_sheets = <<>>
    /\ sheets_layout = <<>>
    /\ force_full_rebuild = FALSE
    /\ preview_cancelled = FALSE
    /\ logscale_toggle = FALSE
    /\ norm_toggle = FALSE
    /\ timer_active = FALSE
    /\ timer_remaining = 0
    /\ pc = "idle"
    /\ groups_to_add = {}
    /\ progress = "none"
    /\ since_change = DebounceInterval
    /\ burst_changes = 0
    /\ burst_passes = 0
    /\ option_state = "none"
    /\ roundtrip = [phase |-> "none"]
    /\ preview_placeholder = "No preview available"
    /\ output_note = [op |-> "none", raised |-> FALSE, preview |-> FALSE, inside |-> FALSE]
    /\ current_group = None
    /\ cancel_note = NoNote
    /\ ExportIdle
    /\ folders = {}

\* The Groups tab with two files imported and grouped by the first segment.
ImportedFiles ==
    { [dir |-> "/d1", name |-> Name_a_c], [dir |-> "/d2", name |-> Name_a_b],
      [dir |-> "/d1", name |-> Name__a] }
GroupsTabFiles ==
    /\ selected_files \in [{1, 2} -> ImportedFiles]
    /\ group_toggle = TRUE
    /\ selector = SELECTOR_UNDERSCORE
    /\ underscore_start = 0
    /\ underscore_end = 1
    /\ length_start = 1
    /\ length_end = 6
    /\ grouped_files = NoDict

PickleTabInit ==
    /\ pickle_note = NoNote
    /\ saved_note = NoNote
    /\ sort_by_groups_checkbox = FALSE
    /\ tab_dataframe = NoneDF
    /\ current_pickle_path = None
    /\ has_unsaved_changes = FALSE
    /\ disk = [p \in PicklePaths |-> NoneDF]

InitInput ==
    /\ OutputIdle
    /\ NothingCalled
    /\ PickleTabInit
    /\ selected_files \in FileLists
    /\ group_toggle \in BOOLEAN
    /\ selector \in {SELECTOR_UNDERSCORE, SELECTOR_LENGTH}
    /\ \/ /\ selector = SELECTOR_UNDERSCORE
          /\ underscore_start \in 0..MaxUnderscore
          /\ underscore_end \in 0..MaxUnderscore
          /\ length_start = 1
          /\ length_end = 6
       \/ /\ selector = SELECTOR_LENGTH
          /\ underscore_start = 0
          /\ underscore_end = 1
          /\ length_start \in 1..MaxLength
          /\ length_end \in 1..MaxLength
    /\ grouped_files = NoDict

NextInput ==
    \/ GetGroupedFiles
    \/ \E chosen \in PicklePaths \cup {""}, write_ok \in BOOLEAN :
           OnStartNew(chosen, write_ok)
    \/ OnStartNewNoFiles
    \/ OnSortToggled

SpecInput == InitInput /\ [][NextInput]_vars

(***************************************************************************)
(* Properties of the grouper and of Start New (under SpecInput).            *)
(***************************************************************************)
Count(seq, x) == Cardinality({i \in 1..Len(seq) : seq[i] = x})
\* The indices of the buckets of dict d that hold filepath.
BucketsOf(d, filepath) == {i \in 1..Len(d) : Count(d[i].files, filepath) > 0}
\* The occurrences of filepath in all buckets of d.
Occurrences(d, filepath) ==
    Cardinality({ij \in (1..Len(d)) \X (1..MaxFiles + 1) :
                    /\ ij[2] <= Len(d[ij[1]].files)
                    /\ d[ij[1]].files[ij[2]] = filepath})
InBucket(d, filepath, k) ==
    \E i \in 1..Len(d) : d[i].key = k /\ BucketsOf(d, filepath) = {i}
Returned == grouped_files # NoDict
\* name[from..to], positions counted from 1, both ends included (clipped).
CharsAt(name, from, to) == Slice(name, from - 1, to)
Stem(filepath) == splitext_root(basename(filepath))
Segments(filepath) == Split(Stem(filepath), "_")
SelectedSet == {selected_files[i] : i \in 1..Len(selected_files)}

\* C6: the buckets returned by get_grouped_files ('_ungrouped' included) hold
\* every selected path as often as the input list does, no path is lost and
\* no path is in two buckets, whatever the grouping rule.
C6_BucketsPartitionInput ==
    Returned =>
        LET d == grouped_files.dict
        IN  /\ \A i, j \in 1..Len(d) : d[i].key = d[j].key => i = j
            /\ \A f \in FilePaths :
                   /\ Occurrences(d, f) = Count(selected_files, f)
                   /\ Cardinality(BucketsOf(d, f)) <= 1

C6_Witness ==
    /\ Returned
    /\ group_toggle
    /\ Len(grouped_files.dict) = 2
    /\ UNGROUPED \in DictKeys(grouped_files.dict)
    /\ Len(selected_files) = 2

\* The files the underscore rule [s, e) covers: at least e segments, s < e.
UnderscoreRuleCovers(f) ==
    /\ group_toggle
    /\ selector = SELECTOR_UNDERSCORE
    /\ underscore_start < underscore_end
    /\ underscore_end <= Len(Segments(f))
JoinedSegments(f) ==
    Join(SubSeq(Segments(f), underscore_start + 1, underscore_end), "_")

\* C7 as stated: every file the underscore rule covers is in exactly one
\* bucket, whose key is its segments s..e-1 joined by '_'.
C7_AsStated ==
    Returned =>
        \A f \in SelectedSet :
            UnderscoreRuleCovers(f) => InBucket(grouped_files.dict, f, JoinedSegments(f))

\* C7, amended: every file the underscore rule covers whose segments s..e-1
\* joined by '_' are not the empty string is in exactly one bucket, whose key
\* is that join; a covered file whose join is empty is in '_ungrouped' only.
C7_UnderscoreKey ==
    Returned =>
        \A f \in SelectedSet :
            UnderscoreRuleCovers(f) =>
                IF JoinedSegments(f) # <<>>
                THEN InBucket(grouped_files.dict, f, JoinedSegments(f))
                ELSE InBucket(grouped_files.dict, f, UNGROUPED)

C7_Witness ==
    /\ Returned
    /\ underscore_start = 0 /\ underscore_end = 2
    /\ \E f \in SelectedSet :
           /\ UnderscoreRuleCovers(f)
           /\ JoinedSegments(f) = <<"a", "_", "b">>
    /\ \E f \in SelectedSet :
           /\ UnderscoreRuleCovers(f)
           /\ JoinedSegments(f) = <<"a", "_", "c">>

\* The configured range yields no key for f (start >= end as the claim reads
\* it for both rules, or the end past the segments / characters of the name).
RangeInvalidAsStated(f) ==
    \/ /\ selector = SELECTOR_UNDERSCORE
       /\ \/ underscore_start >= underscore_end
          \/ underscore_end > Len(Segments(f))
    \/ /\ selector = SELECTOR_LENGTH
       /\ \/ length_start >= length_end
          \/ length_end > Len(Stem(f))

\* The same with the character rule's range read as the code reads it:
\* 1-indexed with both ends included, so invalid only when start > end.
RangeInvalid(f) ==
    \/ /\ selector = SELECTOR_UNDERSCORE
       /\ \/ underscore_start >= underscore_end
          \/ underscore_end > Len(Segments(f))
    \/ /\ selector = SELECTOR_LENGTH
       /\ \/ length_start > length_end
          \/ length_end > Len(Stem(f))

\* C8 as stated: with grouping enabled a file whose configured range has
\* start >= end or reaches past its segments / characters is in '_ungrouped'
\* and in no other bucket.
C8_AsStated ==
    (Returned /\ group_toggle) =>
        \A f \in SelectedSet :
            RangeInvalidAsStated(f) => InBucket(grouped_files.dict, f, UNGROUPED)

\* C8, amended: with grouping enabled a file whose configured range has
\* start >= end (underscore rule) or start > end (character rule), or reaches
\* past its segments / characters, is in '_ungrouped' and in no other bucket.
C8_InvalidRangeUngrouped ==
    (Returned /\ group_toggle) =>
        \A f \in SelectedSet :
            RangeInvalid(f) => InBucket(grouped_files.dict, f, UNGROUPED)

C8_Witness ==
    /\ Returned
    /\ group_toggle
    /\ selector = SELECTOR_LENGTH
    /\ \E f, g \in SelectedSet :
           /\ RangeInvalid(f)
           /\ length_end > Len(Stem(f))
           /\ ~RangeInvalid(g)
           /\ Len(grouped_files.dict) = 2

\* The files the character rule produces a key for.
LengthRuleCovers(f) ==
    /\ group_toggle
    /\ selector = SELECTOR_LENGTH
    /\ extract_group_key(basename(f)).found

\* C9 as stated: the key is the characters [start, end) of the file name,
\* position start included and position end excluded.
C9_AsStated ==
    Returned =>
        \A f \in SelectedSet :
            LengthRuleCovers(f) =>
                InBucket(grouped_files.dict, f,
                         CharsAt(basename(f), length_start, length_end - 1))

\* C9, amended: with the character rule configured with start and end, the
\* key of a file is the characters of its name at the positions start to end
\* counted from 1, the character at position end included.
C9_CharacterKey ==
    Returned =>
        \A f \in SelectedSet :
            LengthRuleCovers(f) =>
                InBucket(grouped_files.dict, f,
                         CharsAt(basename(f), length_start, length_end))

C9_Witness ==
    /\ Returned
    /\ length_start = 2 /\ length_end = 3
    /\ \E f \in SelectedSet :
           /\ LengthRuleCovers(f)
           /\ InBucket(grouped_files.dict, f, <<"_", "b">>)

\* C10: in a table built by Start New two rows have the same Group_ID exactly
\* when they have the same Group, a row has Group_ID 0 exactly when its Group
\* is empty, and the named groups carry the IDs 1..k without a gap.
C10_GroupIds ==
    tab_dataframe # NoneDF =>
        LET rows == tab_dataframe.rows
            R == 1..Len(rows)
            ids == {rows[i].Group_ID : i \in R} \ {0}
        IN  /\ \A i, j \in R :
                   (rows[i].Group_ID = rows[j].Group_ID) <=> (rows[i].Group = rows[j].Group)
            /\ \A i \in R : (rows[i].Group_ID = 0) <=> (rows[i].Group = <<>>)
            /\ ids = 1..Cardinality(ids)

C10_Witness ==
    /\ tab_dataframe # NoneDF
    /\ \E i, j \in 1..Len(tab_dataframe.rows) :
           /\ tab_dataframe.rows[i].Group_ID = 0
           /\ tab_dataframe.rows[j].Group_ID = 1
           /\ tab_dataframe.rows[j].Group # <<>>

(***************************************************************************)
(* The Output workspace.                                                    *)
(***************************************************************************)
GroupsTabInit ==
    /\ selected_files = <<>>
    /\ group_toggle = FALSE
    /\ selector = SELECTOR_UNDERSCORE
    /\ underscore_start = 0
    /\ underscore_end = 1
    /\ length_start = 1
    /\ length_end = 6
    /\ grouped_files = NoDict

Init ==
    /\ OutputIdle
    /\ NothingCalled
    /\ PickleTabInit
    /\ GroupsTabInit

Next ==
    \/ SetPickleDataCallback
    \/ \E df \in TablePool : RefreshData(df)
    \/ \E button_id \in {0, 1} : OnFileSelectionChanged(button_id)
    \/ \E g \in DOMAIN group_toggles : OnGroupToggleChanged(g)
    \/ \E option \in {"log", "norm"} : OnDisplayOptionChanged(option)
    \/ \E checked \in BOOLEAN : OnSelectAll(checked)
    \/ Tick
    \/ OnDebouncedGroupToggle
    \/ PassStep
    \/ PassRender
    \/ ResumePass
    \/ CancelClicked

Spec == Init /\ [][Next]_vars

\* The Output workspace with sheets whose rendering can raise.
NextRender ==
    \/ Next
    \/ \E survives \in BOOLEAN : RenderRaises(survives)
    \/ CancelOrphan

SpecRender == Init /\ [][NextRender]_vars

(***************************************************************************)
(* Properties of the Output preview (under Spec).                           *)
(***************************************************************************)
\* A pass has run to its end after the last change of the toggles.
PassSettled == pc = "idle" /\ ~timer_active
RenderColumns ==
    {COL_FILENAME, COL_DIRECTORY, COL_GROUP, COL_GROUP_ID, "Threshold"}
HasRenderColumns == dataframe = NoneDF \/ RenderColumns \subseteq Columns(dataframe)
LayoutNames == {sheets_layout[i].group : i \in 1..Len(sheets_layout)}
CacheMatchesSelection ==
    /\ CachedNames(rendered_sheets) = Selected(group_toggles)
    /\ LayoutNames = Selected(group_toggles)
    /\ Len(sheets_layout) = Len(rendered_sheets)

\* C1 as stated: after an update pass that is not cancelled the cached groups
\* are the checked groups, in the cache and in the display.
C1_AsStated ==
    (PassSettled /\ ~preview_cancelled) => CacheMatchesSelection

\* C1, amended: after an update pass that is not cancelled, on a table that
\* has the columns Filename, Directory, Group, Group_ID and Threshold, the
\* cached groups are the checked groups, in the cache and in the display.
C1_CacheEqualsSelection ==
    (PassSettled /\ ~preview_cancelled /\ HasRenderColumns) => CacheMatchesSelection

C1_Witness ==
    /\ PassSettled
    /\ ~preview_cancelled
    /\ roundtrip.phase = "off"
    /\ \E e \in roundtrip.cached : e.group = roundtrip.group
    /\ roundtrip.group \notin CachedNames(rendered_sheets)
    /\ Len(rendered_sheets) = 2

AllSheets ==
    {rendered_sheets[i].sheet : i \in 1..Len(rendered_sheets)}
        \cup {sheets_layout[i] : i \in 1..Len(sheets_layout)}
NoStaleSheet == \A sheet \in AllSheets : ~sheet.stale
\* Every checked group has a cached and displayed sheet drawn after the last
\* option change, with the options as they are now.
SelectionRenderedAgain ==
    \A g \in Selected(group_toggles) :
        \E i \in 1..Len(rendered_sheets) :
            /\ rendered_sheets[i].name = g
            /\ ~rendered_sheets[i].sheet.stale
            /\ rendered_sheets[i].sheet.log = logscale_toggle
            /\ rendered_sheets[i].sheet.norm = norm_toggle
            /\ \E j \in 1..Len(sheets_layout) : sheets_layout[j] = rendered_sheets[i].sheet

\* C2 as stated: the next pass after a log-scale or normalization change
\* discards every cached sheet and renders again the sheet of every selected
\* group.
C2_AsStated ==
    (option_state = "passed" /\ pc = "idle") =>
        (NoStaleSheet /\ SelectionRenderedAgain)

\* C2, amended: the next pass after a log-scale or normalization change
\* discards every cached sheet, so that no sheet rendered before the change
\* is cached or displayed after it; and when that pass is not cancelled and
\* the table has the columns rendering needs, it renders again the sheet of
\* every selected group.
C2_OptionChangeRebuilds ==
    /\ option_state # "changed" => NoStaleSheet
    /\ (option_state = "passed" /\ pc = "idle" /\ ~preview_cancelled /\ HasRenderColumns)
           => SelectionRenderedAgain

C2_Witness ==
    /\ option_state = "passed"
    /\ pc = "idle"
    /\ ~preview_cancelled
    /\ Len(rendered_sheets) = 2
    /\ \A i \in 1..2 : rendered_sheets[i].sheet.log /\ ~rendered_sheets[i].sheet.norm

\* The Group_ID the table gives a group (that of the group's first row).
TableGroupId(g) == GroupRows(dataframe, g)[1].Group_ID

\* C3: after every update pass the displayed sheets are in ascending Group_ID
\* order (each sheet under the Group_ID its group has in the table), so the
\* order depends on the set of displayed groups only, not on the order in
\* which they were toggled on and cached.
C3_AscendingGroupId ==
    pc = "idle" =>
        /\ \A i, j \in 1..Len(sheets_layout) :
               i < j => sheets_layout[i].group_id < sheets_layout[j].group_id
        /\ HasRenderColumns =>
               \A i \in 1..Len(sheets_layout) :
                   sheets_layout[i].group_id = TableGroupId(sheets_layout[i].group)

C3_Witness ==
    /\ pc = "idle"
    /\ Len(sheets_layout) = 3
    /\ Len(rendered_sheets) = 3
    /\ rendered_sheets[1].group_id > rendered_sheets[2].group_id
    /\ rendered_sheets[2].group_id > rendered_sheets[3].group_id

\* C4: a burst of changes, each within the debounce delay of the previous one
\* (toggles, Select All, Deselect All), triggers at most one update pass, and
\* that pass runs only when the delay has passed since the last change.
C4_OnePassPerBurst ==
    /\ burst_passes <= 1
    /\ burst_passes = 1 => since_change >= DebounceInterval

C4_Witness ==
    /\ burst_changes = 2
    /\ burst_passes = 1
    /\ Cardinality(Selected(group_toggles)) = 2
    /\ Len(rendered_sheets) = 2
    /\ pc = "idle"

LegacyRow(filename, group, group_id) ==
    [Filename |-> filename, Group |-> group, Group_ID |-> group_id]
\* Tables written without a Directory column.
TableLegacy ==
    [columns |-> <<COL_FILENAME, COL_GROUP, COL_GROUP_ID>>,
     rows |-> << LegacyRow(<<"b", "a">>, <<"b">>, 2), LegacyRow(<<"a", "a">>, <<"a">>, 1) >>]
TableGroupFirst ==
    [columns |-> <<COL_GROUP, COL_FILENAME>>,
     rows |-> << [Group |-> <<"a">>, Filename |-> <<"a", "a">>] >>]
\* A table without a Filename column.
TableNoFilename == [columns |-> <<COL_GROUP>>, rows |-> << [Group |-> <<"a">>] >>]
\* A table as the tab writes it, rows not in sorted order.
TableStored ==
    [columns |-> NewColumns,
     rows |-> << TableRow(<<"b", "a">>, <<"b">>, 2), TableRow(<<"a", "b">>, <<"a">>, 1),
                 TableRow(<<"a", "a">>, <<"a">>, 1) >>]
FilePool == {NoneDF} \cup
    {to_pickle(t) : t \in {TableLegacy, TableGroupFirst, TableNoFilename, TableStored}}

InitPickle ==
    /\ OutputIdle
    /\ NothingCalled
    /\ GroupsTabFiles
    /\ pickle_note = NoNote
    /\ saved_note = NoNote
    /\ sort_by_groups_checkbox = FALSE
    /\ tab_dataframe = NoneDF
    /\ current_pickle_path = None
    /\ has_unsaved_changes = FALSE
    /\ disk \in [PicklePaths -> FilePool]

NextPickle ==
    \/ \E filepath \in PicklePaths, directory \in Directories \cup {""},
          write_ok \in BOOLEAN : OnLoadExisting(filepath, directory, write_ok)
    \/ \E filepath \in PicklePaths, directory \in Directories \cup {""},
          write_ok \in BOOLEAN : LoadPickleFromPath(filepath, directory, write_ok)
    \/ \E write_ok \in BOOLEAN : OnSave(write_ok)
    \/ OnSaveNothing
    \/ \E filepath \in PicklePaths : UpdateDataframe(filepath)
    \/ OnSortToggled
    \/ \E chosen \in PicklePaths \cup {""}, write_ok \in BOOLEAN :
           OnStartNew(chosen, write_ok)

SpecPickle == InitPickle /\ [][NextPickle]_vars

(***************************************************************************)
(* MainWindow: the three workspaces as its constructor wires them           *)
(* (_setup_workspace_communication gives the Analysis workspace its input   *)
(* callback and sets no callback of the Output workspace), and the          *)
(* navigation button of the Output workspace.                               *)
(***************************************************************************)
\* AnalysisWorkspace.get_dataframe
get_dataframe == tab_dataframe

\* _switch_workspace(WorkspaceID.OUTPUT): on_activated calls refresh_data.
SwitchWorkspaceOutput == RefreshData(get_dataframe)

NextMain ==
    \/ NextPickle
    \/ SwitchWorkspaceOutput

SpecMain == InitPickle /\ [][NextMain]_vars

(***************************************************************************)
(* Export As...: the Output workspace after a refresh and clicks on the    *)
(* toggles, the debounce delay just over; the target folder may exist.      *)
(***************************************************************************)
ExportTables == {TableTwo, TableMany}

\* The toggles after clicks on single toggles (a small table) or on Select
\* All / Deselect All.
ToggleStates(df) ==
    LET names == DOMAIN update_file_overview(df)
    IN  IF Cardinality(names) <= 3 THEN [names -> BOOLEAN]
        ELSE {[g \in names |-> TRUE], [g \in names |-> FALSE]}

InitExport ==
    /\ PickleTabInit
    /\ GroupsTabInit
    /\ get_pickle_data_callback = TRUE
    /\ dataframe \in ExportTables
    /\ groups_button = TRUE
    /\ group_toggles \in ToggleStates(dataframe)
    /\ rendered_sheets = <<>>
    /\ sheets_layout = <<>>
    /\ force_full_rebuild = TRUE
    /\ preview_cancelled = FALSE
    /\ logscale_toggle = FALSE
    /\ norm_toggle = FALSE
    /\ timer_active = TRUE
    /\ timer_remaining = 0
    /\ pc = "idle"
    /\ groups_to_add = {}
    /\ progress = "none"
    /\ since_change = DebounceInterval
    /\ burst_changes = 1
    /\ burst_passes = 0
    /\ option_state = "none"
    /\ roundtrip = [phase |-> "none"]
    /\ preview_placeholder = "No groups selected"
    /\ output_note = [op |-> "refresh", raised |-> FALSE, preview |-> TRUE, inside |-> FALSE]
    /\ current_group = None
    /\ cancel_note = NoNote
    /\ ExportIdle
    /\ folders \in SUBSET {path_join(Destination, <<"o">>)}
    /\ NothingCalled

NextExport ==
    \/ export_pc = "idle" /\ OnDebouncedGroupToggle
    \/ PassStep
    \/ PassRender
    \/ ResumePass
    \/ CancelClicked
    \/ OnExport
    \/ \E text \in FolderTexts, format \in ExportFormats, mkdir_ok \in BOOLEAN :
           ExportDialogAccept(text, format, mkdir_ok)
    \/ ExportDialogReject
    \/ \E reply \in {"Yes", "Cancel"} : ExportConfirm(reply)
    \/ ExportCheck
    \/ ExportCancelClicked
    \/ \E save_ok \in BOOLEAN : ExportProcess(save_ok)

SpecExport == InitExport /\ [][NextExport]_vars

(***************************************************************************)
(* The figure code: the image loaders, the fraction bar chart and the       *)
(* command line of generate_figures. Each behaviour is one call: the         *)
(* argument is drawn at the start, the function is applied to it.           *)
(***************************************************************************)
MaxNdim == 5
MaxPixels == 24
MaxBars == 4
Dims == {1, 2, 3, 4}

RECURSIVE Product(_)
Product(shape) == IF shape = <<>> THEN 1 ELSE Head(shape) * Product(Tail(shape))
RECURSIVE SumSeq(_)
SumSeq(values) == IF values = <<>> THEN 0 ELSE Head(values) + SumSeq(Tail(values))

\* numpy arrays: a shape and one value for each index. The values are
\* multiples of 3, so that a mean of three of them is an integer.
Shapes ==
    {shape \in UNION {[1..n -> Dims] : n \in 2..MaxNdim} : Product(shape) <= MaxPixels}
Indices(shape) ==
    {idx \in [1..Len(shape) -> 0..3] : \A k \in 1..Len(shape) : idx[k] < shape[k]}
Pixel(seed, idx) == 3 * ((seed + SumSeq([k \in 1..Len(idx) |-> k * idx[k]])) % 3)
Arrays ==
    {[shape |-> shape, px |-> [idx \in Indices(shape) |-> Pixel(seed, idx)]] :
        shape \in Shapes, seed \in {0, 1}}
ndim(image) == Len(image.shape)

\* np.mean(image[:, :, :channels], axis=2)
mean_axis2(image, channels) ==
    LET shape == <<image.shape[1], image.shape[2]>>
    IN  [shape |-> shape,
         px |-> [idx \in Indices(shape) |->
                    SumSeq([c \in 1..channels |-> image.px[idx \o <<c - 1>>]]) \div channels]]
\* image[:, :, 0]
first_of_axis2(image) ==
    LET shape == <<image.shape[1], image.shape[2]>>
    IN  [shape |-> shape, px |-> [idx \in Indices(shape) |-> image.px[idx \o <<0>>]]]
\* image[0, 0, :, :]
plane_of_first_frame(image) ==
    LET shape == <<image.shape[3], image.shape[4]>>
    IN  [shape |-> shape, px |-> [idx \in Indices(shape) |-> image.px[<<0, 0>> \o idx]]]
\* image[0, :, :, 0]
first_channel_of_frame(image) ==
    LET shape == <<image.shape[2], image.shape[3]>>
    IN  [shape |-> shape,
         px |-> [idx \in Indices(shape) |-> image.px[<<0>> \o idx \o <<0>>]]]

\* "Handle multi-channel images": the branches on ndim and shape that the two
\* loaders share.
handle_multi_channel(image) ==
    IF ndim(image) > 2
    THEN IF ndim(image) = 3
         THEN IF image.shape[3] \in {3, 4}
              THEN mean_axis2(image, 3)
              ELSE first_of_axis2(image)
         ELSE IF ndim(image) = 4
         THEN IF image.shape[1] > 1 THEN plane_of_first_frame(image)
              ELSE first_channel_of_frame(image)
         ELSE image
    ELSE image

\* The file at the path: missing, unreadable (the reader raises) or an array.
NoneImage == [none |-> TRUE]
ImageFiles ==
    {[exists |-> FALSE], [exists |-> TRUE, readable |-> FALSE]} \cup
    {[exists |-> TRUE, readable |-> TRUE, array |-> image] : image \in Arrays}

\* generate_figures.load_image
load_image(file) ==
    IF ~file.exists THEN NoneImage
    ELSE IF ~file.readable THEN NoneImage
    ELSE handle_multi_channel(file.array)

\* OutputWorkspace._load_image_silent
load_image_silent(file) ==
    IF ~file.exists THEN NoneImage
    ELSE IF ~file.readable THEN NoneImage
    ELSE handle_multi_channel(file.array)

\* RawProcessingTab._load_image: as the other two, with message boxes. In the
\* branch of a 3-D array with other than 3 or 4 channels, the text of the
\* message reads image.shape[2] after image has become 2-D (line 473): the
\* IndexError is caught by the except at line 486, which returns None.
raw_load_image(file) ==
    IF ~file.exists THEN NoneImage
    ELSE IF ~file.readable THEN NoneImage
    ELSE IF ndim(file.array) = 3 /\ file.array.shape[3] \notin {3, 4} THEN NoneImage
    ELSE handle_multi_channel(file.array)

\* The Fraction values of the rows of a group, in hundredths, or NaN.
NaN == [nan |-> TRUE]
FractionValues == {NaN} \cup {[value |-> v] : v \in {0, 20, 50, 90}}
FractionLists == UNION {[1..n -> FractionValues] : n \in 1..MaxBars}
RECURSIVE MaxOf(_)
MaxOf(values) ==
    IF Len(values) = 1 THEN values[1] ELSE Max(Head(values), MaxOf(Tail(values)))

\* Axes.set_ylim, in ten-thousandths: identical limits are expanded (by 0.05
\* around 0, by 5 % otherwise).
set_ylim(bottom, top) ==
    IF bottom # top THEN [bottom |-> bottom, top |-> top]
    ELSE IF top = 0 THEN [bottom |-> 0 - 500, top |-> 500]
    ELSE [bottom |-> bottom - (5 * Max(bottom, 0 - bottom)) \div 100,
          top |-> top + (5 * Max(top, 0 - top)) \div 100]

value_labels(fraction_values) ==
    {i \in DOMAIN fraction_values : fraction_values[i] # NaN}

\* _render_sheet_content, lines 1066-1078: the y-range of the fraction chart
\* and the bars that get a value label.
fractions_chart(fraction_values) ==
    LET valid == SelectSeq(fraction_values, LAMBDA f : f # NaN)
        valid_fractions == [i \in 1..Len(valid) |-> valid[i].value]
    IN  [ylim |-> IF valid_fractions # <<>>
                  THEN set_ylim(0, MaxOf(valid_fractions) * 115)
                  ELSE set_ylim(0, 10000),
         labels |-> value_labels(fraction_values)]

\* The command line of generate_figures and the file its first argument
\* names: the name, whether it exists and what unpickling it gives.
endswith(text, suffix) ==
    /\ Len(text) >= Len(suffix)
    /\ SubSeq(text, Len(text) - Len(suffix) + 1, Len(text)) = suffix
FileNames == { <<"s", ".", "p", "k", "l">>, <<"s", ".", "p", "i", "c", "k", "l", "e">> }
FileContents == {"selection", "dataframe", "garbage"}
CommandLines ==
    {[args |-> <<>>]} \cup
    {[args |-> <<name>> \o more, exists |-> exists, content |-> content] :
        name \in FileNames, more \in {<<>>, << <<"x">> >>}, exists \in BOOLEAN,
        content \in FileContents}

ReportFiles ==
    {"combined_figures.pdf", "STAT3_Lemon.png", "NF-kB_Lychee.png", "STAT3_Lemon.svg",
     "NF-kB_Lychee.svg"}

\* generate_figures.regenerate_from_pickle
regenerate_from_pickle(command) ==
    IF command.content = "garbage"
    THEN [mode |-> "Failed to load selection pickle", written |-> {}, wizard |-> FALSE]
    ELSE IF command.content # "selection"
    THEN [mode |-> "Invalid selection pickle format", written |-> {}, wizard |-> FALSE]
    ELSE [mode |-> "regenerated", written |-> ReportFiles, wizard |-> FALSE]

\* generate_figures.main up to the first dialog of the wizard.
\* Variant that starts the wizard when the argument is turned down.
main_falls_back(command) ==
    IF Len(command.args) > 0
    THEN IF command.exists /\ endswith(command.args[1], <<".", "p", "k", "l">>)
         THEN regenerate_from_pickle(command)
         ELSE [mode |-> "wizard", written |-> {}, wizard |-> TRUE]
    ELSE [mode |-> "wizard", written |-> {}, wizard |-> TRUE]

main(command) ==
    IF Len(command.args) > 0
    THEN IF command.exists /\ endswith(command.args[1], <<".", "p", "k", "l">>)
         THEN regenerate_from_pickle(command)
         ELSE [mode |-> "Invalid pickle file path", written |-> {}, wizard |-> FALSE]
    ELSE [mode |-> "wizard", written |-> {}, wizard |-> TRUE]

(***************************************************************************)
(* generate_figures: the interactive run and the run from its selection     *)
(* file. Paths and file names are sequences of characters.                  *)
(***************************************************************************)
FiguresFolder == <<"f", "i", "g", "u", "r", "e", "s">>
SelectionFileName == <<"f", "i", "g", "u", "r", "e", "_", "s", "e", "l", "e", "c", "t", "i", "o", "n", "s", ".", "p", "k", "l">>
FNAME1 == <<"c", "_", "0", "0", "h">>
FNAME2 == <<"c", "_", "4", "8", "h">>
DIR1 == <<"/", "d", "1">>
DIR2 == <<"/", "d", "2">>
LYCHEE == <<"/", "d", "2", "/", "y", ".", "p", "k", "l">>
LemonPaths == {<<"/", "d", "1", "/", "l", ".", "p", "k", "l">>, <<"l", ".", "p", "k", "l">>, <<"/", "l", ".", "p", "k", "l">>, <<"/", "d", "1", "/", "e", "/", "l", ".", "p", "k", "l">>}
TIMEPOINTS == <<"0h", "2h", "4h", "6h", "24h", "48h">>
ROW_LABELS == <<"Ctrl #1", "Ctrl #2", "TNFa #1", "TNFa #2", "LIF #1", "LIF #2">>

\* os.path.join of two components (posixpath)
posix_join(a, b) ==
    IF a = <<>> THEN b
    ELSE IF b # <<>> /\ Head(b) = "/" THEN b
    ELSE IF a[Len(a)] = "/" THEN a \o b
    ELSE a \o <<"/">> \o b

RECURSIVE rstrip_sep(_)
rstrip_sep(text) ==
    IF text # <<>> /\ text[Len(text)] = "/" THEN rstrip_sep(SubSeq(text, 1, Len(text) - 1))
    ELSE text
\* os.path.dirname (posixpath): up to the last separator, trailing separators
\* removed unless the head is made of separators only.
posix_dirname(p) ==
    LET seps == {i \in 1..Len(p) : p[i] = "/"}
        i == IF seps = {} THEN 0 ELSE CHOOSE k \in seps : \A j \in seps : j <= k
        head == SubSeq(p, 1, i)
    IN  IF head # <<>> /\ rstrip_sep(head) # <<>> THEN rstrip_sep(head) ELSE head

\* dict.get(key, default) on a row dict
dict_get(d, key, default) == IF key \in DOMAIN d THEN d[key] ELSE default

NoFile == [no_file |-> TRUE]
EmptyDict == [tp \in {} |-> NoFile]
\* create_figure: what the figure shows. Row r, column c shows the heatmap of
\* the file selected for timepoint c in row r and its Fraction in the scatter
\* plot, or "No File".
create_figure(figure_name, row_data, threshold) ==
    [name |-> figure_name, threshold |-> threshold,
     cells |-> [r \in 1..Len(ROW_LABELS) |-> [c \in 1..Len(TIMEPOINTS) |->
                  IF TIMEPOINTS[c] \in DOMAIN row_data[r]
                  THEN LET file_info == row_data[r][TIMEPOINTS[c]]
                       IN  [file |-> posix_join(file_info.Directory, file_info.Filename),
                            fraction |-> dict_get(file_info, "Fraction", NaN)]
                  ELSE NoFile]]]

\* main, lines 762-771: what is stored for one selected file.
\* Variant that does not store the Fraction.
selection_entry_no_fraction(info) ==
    [Filename |-> info.Filename, Directory |-> info.Directory,
     Group |-> dict_get(info, "Group", ""), Group_ID |-> dict_get(info, "Group_ID", 0),
     Threshold |-> dict_get(info, "Threshold", NaN)]

selection_entry(info) ==
    [Filename |-> info.Filename, Directory |-> info.Directory,
     Group |-> dict_get(info, "Group", ""), Group_ID |-> dict_get(info, "Group_ID", 0),
     Fraction |-> dict_get(info, "Fraction", NaN),
     Threshold |-> dict_get(info, "Threshold", NaN)]

\* One figure's part of selection_data; the selections dict is the sequence
\* of its items, in the order of ROW_LABELS.
selection_of(pickle_path, figure) ==
    [source_pickle |-> pickle_path, figure_name |-> figure.name,
     threshold |-> figure.threshold,
     selections |-> [r \in 1..Len(ROW_LABELS) |->
                       [key |-> ROW_LABELS[r],
                        value |-> [tp \in DOMAIN figure.row_data[r] |->
                                      selection_entry(figure.row_data[r][tp])]]]]

\* main from the wizard's dialogs on (lines 639-777): input is what the
\* dialogs return. The selection file is the pickle of selection_data.
wizard(input) ==
    LET lemon == [name |-> "(STAT3)-Lemon", row_data |-> input.lemon_rows,
                  threshold |-> input.lemon_threshold]
        lychee == [name |-> "(NF-kB)-Lychee", row_data |-> input.lychee_rows,
                   threshold |-> input.lychee_threshold]
        figures_dir == posix_join(posix_dirname(input.lemon_path), FiguresFolder)
        selection_data == [lemon |-> selection_of(input.lemon_path, lemon),
                           lychee |-> selection_of(input.lychee_path, lychee)]
    IN  [mode |-> "generated", wizard |-> TRUE,
         figures |-> <<create_figure(lemon.name, lemon.row_data, lemon.threshold),
                       create_figure(lychee.name, lychee.row_data, lychee.threshold)>>,
         folder |-> figures_dir,
         written |-> ReportFiles \cup {"figure_selections.pkl"},
         selection_path |-> posix_join(figures_dir, SelectionFileName),
         pickle |-> [pickled |-> selection_data]]

\* regenerate_from_pickle on a readable selection file (lines 537-602)
regenerate_selection(selection_pickle_path, blob) ==
    LET selection_data == blob.pickled
        row_data(fig_info) ==
            [r \in 1..Len(ROW_LABELS) |->
                IF \E k \in 1..Len(fig_info.selections) :
                       fig_info.selections[k].key = ROW_LABELS[r]
                THEN fig_info.selections[CHOOSE k \in 1..Len(fig_info.selections) :
                         fig_info.selections[k].key = ROW_LABELS[r]].value
                ELSE EmptyDict]
        figure(fig_info) ==
            create_figure(fig_info.figure_name, row_data(fig_info), fig_info.threshold)
    IN  [mode |-> "regenerated", wizard |-> FALSE,
         figures |-> <<figure(selection_data.lemon), figure(selection_data.lychee)>>,
         folder |-> posix_dirname(selection_pickle_path),
         written |-> ReportFiles]

\* What the dialogs of the wizard can return: the two tables' paths and
\* thresholds, and for each row label the files selected by timepoint.
FileInfos ==
    {[Filename |-> FNAME1, Directory |-> DIR1, Group |-> "c", Group_ID |-> 1,
      Threshold |-> [value |-> 5], Fraction |-> [value |-> 50]],
     [Filename |-> FNAME2, Directory |-> DIR2, Group |-> "c", Group_ID |-> 1,
      Threshold |-> [value |-> 5], Fraction |-> NaN]}
RowChoices ==
    {EmptyDict} \cup {("0h" :> info) : info \in FileInfos} \cup
    {("0h" :> a @@ "48h" :> b) : a, b \in FileInfos}
RowsWith(first, second) ==
    [r \in 1..Len(ROW_LABELS) |->
        IF r = 1 THEN first ELSE IF r = Len(ROW_LABELS) THEN second ELSE EmptyDict]
WizardInputs ==
    {[lemon_path |-> path, lychee_path |-> LYCHEE, lemon_threshold |-> [value |-> t],
      lychee_threshold |-> [value |-> 5],
      lemon_rows |-> RowsWith(first, second), lychee_rows |-> RowsWith(second, EmptyDict)] :
        path \in LemonPaths, t \in {5, 7}, first \in RowChoices, second \in RowChoices}

besideFigures == <<outputVars, historyVars, groupsVars, pickleVars, noteVars,
                   displayVars, passVars, exportVars>>

Calls ==
    {[fn |-> "load_image", file |-> file] : file \in ImageFiles} \cup
    {[fn |-> "_load_image_silent", file |-> file] : file \in ImageFiles} \cup
    {[fn |-> "_load_image", file |-> file] : file \in ImageFiles} \cup
    {[fn |-> "_render_sheet_content", fraction_values |-> values] :
        values \in FractionLists} \cup
    {[fn |-> "main", command |-> command] : command \in CommandLines} \cup
    {[fn |-> "wizard", input |-> input] : input \in WizardInputs}

Return(value) ==
    /\ returned = NotCalled
    /\ returned' = [called |-> TRUE, value |-> value]
    /\ UNCHANGED <<call, besideFigures>>

LoadImage == call.fn = "load_image" /\ Return(load_image(call.file))
LoadImageSilent == call.fn = "_load_image_silent" /\ Return(load_image_silent(call.file))
LoadImageRaw == call.fn = "_load_image" /\ Return(raw_load_image(call.file))
RenderFractions ==
    call.fn = "_render_sheet_content" /\ Return(fractions_chart(call.fraction_values))
Main == call.fn = "main" /\ Return(main(call.command))
\* main without argument, from the wizard's dialogs to the report.
MainWizard == call.fn = "wizard" /\ Return(wizard(call.input))
\* main once more, with the selection file the wizard's run wrote as argument.
MainAgain ==
    /\ call.fn = "wizard"
    /\ returned.called
    /\ "again" \notin DOMAIN returned
    /\ LET path == returned.value.selection_path
       IN  returned' =
               [called |-> TRUE, value |-> returned.value,
                again |-> IF endswith(path, <<".", "p", "k", "l">>)
                          THEN regenerate_selection(path, returned.value.pickle)
                          ELSE [mode |-> "Invalid pickle file path", written |-> {},
                                wizard |-> FALSE]]
    /\ UNCHANGED <<call, besideFigures>>

InitFigures ==
    /\ OutputIdle
    /\ PickleTabInit
    /\ GroupsTabInit
    /\ call \in Calls
    /\ returned = NotCalled

NextFigures ==
    \/ LoadImage
    \/ LoadImageSilent
    \/ LoadImageRaw
    \/ RenderFractions
    \/ Main
    \/ MainWizard
    \/ MainAgain

SpecFigures == InitFigures /\ [][NextFigures]_vars

(***************************************************************************)
(* Properties of the table of Start New (under SpecInput).                  *)
(***************************************************************************)
\* The path each row of the table names: its Directory joined with its Filename.
RowPaths(df) ==
    [i \in 1..Len(df.rows) |-> [dir |-> df.rows[i].Directory, name |-> df.rows[i].Filename]]

\* C11 as stated: a table built by Start New has exactly one row per imported
\* file, and the row's Directory joined with its Filename is the path of that
\* file, also when the files come from different directories.
C11_AsStated ==
    tab_dataframe # NoneDF =>
        /\ Len(tab_dataframe.rows) = Len(selected_files)
        /\ \A f \in SelectedSet :
               Count(RowPaths(tab_dataframe), f) = Count(selected_files, f)

(***************************************************************************)
(* Properties of loading and saving (under SpecPickle).                     *)
(***************************************************************************)
Backfilled == pickle_note # NoNote /\ pickle_note.outcome = "backfilled"
\* The table the loaded file held before the load.
LoadedBefore == read_pickle(pickle_note.before)
\* Every row received the chosen directory and kept its other values; the
\* corrected table is the current one and is what the loaded file now holds.
BackfilledUniformly ==
    /\ Len(tab_dataframe.rows) = Len(LoadedBefore.rows)
    /\ \A i \in 1..Len(tab_dataframe.rows) :
           /\ tab_dataframe.rows[i].Directory = pickle_note.directory
           /\ \A c \in Columns(LoadedBefore) :
                  tab_dataframe.rows[i][c] = LoadedBefore.rows[i][c]
    /\ Columns(tab_dataframe) = Columns(LoadedBefore) \cup {COL_DIRECTORY}
    /\ current_pickle_path = pickle_note.path
    /\ disk[pickle_note.path] # NoneDF
    /\ read_pickle(disk[pickle_note.path]) = tab_dataframe
DirectoryAfterFilename ==
    \E k \in 1..(Len(tab_dataframe.columns) - 1) :
        /\ tab_dataframe.columns[k] = COL_FILENAME
        /\ tab_dataframe.columns[k + 1] = COL_DIRECTORY

\* C12 as stated: after a load (Load Existing or a load requested from another
\* workspace) of a table without Directory column for which the user chose a
\* directory, every row has that directory in a Directory column placed right
\* after Filename, and the file holds the corrected table, which is the
\* current table.
C12_AsStated ==
    Backfilled => (BackfilledUniformly /\ DirectoryAfterFilename)

(***************************************************************************)
(* Properties of the Output workspace on incomplete tables (under Spec).    *)
(***************************************************************************)
LacksRenderColumn == dataframe # NoneDF /\ ~(RenderColumns \subseteq Columns(dataframe))
\* The Groups view was refreshed, or an update pass was run, and has ended.
RefreshedOrPassed ==
    /\ output_note.op \in {"refresh", "pass"}
    /\ groups_button
    /\ pc = "idle"

\* C13 as stated: when the current table lacks one of the columns Filename,
\* Directory, Group, Group_ID, Threshold, a refresh of the Output workspace or
\* an update pass renders no sheet, leaves the cache empty and shows a message
\* naming the problem, without raising an error.
C13_AsStated ==
    (LacksRenderColumn /\ RefreshedOrPassed) =>
        /\ rendered_sheets = <<>>
        /\ sheets_layout = <<>>
        /\ preview_placeholder \in {"Missing columns", "No threshold data found"}
        /\ ~output_note.raised

(***************************************************************************)
(* Properties of Export As... and of the batch loops (under SpecExport).    *)
(***************************************************************************)
\* The export loop ran to its end and the summary is on the screen.
ExportCompleted ==
    /\ export_pc = "idle"
    /\ export_message.title \in {"Export Complete", "Export Complete with Warnings"}
ExportGroups == {export_groups[i] : i \in 1..Len(export_groups)}
ListedGroups == {export_message.listed[i].group : i \in 1..Len(export_message.listed)}
OthersExported ==
    \A g \in ExportGroups \ export_failures :
        sheet_file(g, GroupRows(dataframe, g)[1].Group_ID) \in sheet_files
CountsAddUp == export_message.exported + export_message.failed = Len(export_groups)

\* C14 as the spec states it: after an export that was not cancelled, every
\* group whose sheet failed is listed in the summary, every other selected
\* group has its file, and exported + failed = selected.
C14_AsStated ==
    ExportCompleted =>
        /\ export_failures \subseteq ListedGroups
        /\ OthersExported
        /\ CountsAddUp

\* C14: after an export that was not cancelled, every group whose sheet failed
\* is recorded and counted in the summary, which names the first
\* FailedListLimit failures and gives the number of the others; every other
\* selected group has its file, and exported + failed = selected.
C14_FailuresCounted ==
    ExportCompleted =>
        /\ {failed_sheets[i].group : i \in 1..Len(failed_sheets)} = export_failures
        /\ export_message.failed = Cardinality(export_failures)
        /\ Len(export_message.listed) = Min(Len(failed_sheets), FailedListLimit)
        /\ \A i \in 1..Len(export_message.listed) :
               export_message.listed[i] = failed_sheets[i]
        /\ export_message.more = Len(failed_sheets) - Len(export_message.listed)
        /\ OthersExported
        /\ CountsAddUp

\* An export ended with one sheet failed and another saved.
C14_Witness ==
    /\ ExportCompleted
    /\ export_failures # {}
    /\ export_message.exported > 0

ClaimedInvalidChars == {"<", ">", ":", "\"", "/", "\\", "|", "?", "*"}
ValidFolderText(text) ==
    /\ strip(text) # <<>>
    /\ \A i \in 1..Len(strip(text)) : strip(text)[i] \notin ClaimedInvalidChars

\* C16: a step creates a folder or writes a sheet file only when a group is
\* selected, the dialog was accepted with a folder name that is non-empty
\* after trimming and has none of the characters < > : " / \ | ? *, and, if the
\* target folder existed, the user confirmed overwriting.
C16_ExportGuarded ==
    [][(folders' # folders \/ sheet_files' # sheet_files) =>
           /\ export_note'.selected # {}
           /\ export_note'.accepted
           /\ ValidFolderText(export_note'.text)
           /\ export_note'.existed => export_note'.confirmed]_vars

\* Sheets were written into a folder that existed, after the user confirmed.
C16_Witness ==
    /\ sheet_files # {}
    /\ export_note.existed
    /\ export_note.confirmed
    /\ export_note.text = <<" ", "o", " ">>

(***************************************************************************)
(* Properties of save and load (under SpecPickle).                          *)
(***************************************************************************)
\* The last operation loaded, without a prompt, the file that the last save
\* wrote, and the saved table had a Directory column.
LoadedWhatWasSaved ==
    /\ pickle_note # NoNote
    /\ pickle_note.outcome = "loaded"
    /\ saved_note # NoNote
    /\ pickle_note.path = saved_note.path
    /\ COL_DIRECTORY \in Columns(saved_note.table)

\* C17: saving the current table and then loading the saved file, when the
\* table has a Directory column, gives a current table with the same columns
\* in the same order and the same rows in the same order as the saved one.
C17_SaveLoadRoundTrip ==
    LoadedWhatWasSaved =>
        /\ tab_dataframe.columns = saved_note.table.columns
        /\ tab_dataframe.rows = saved_note.table.rows

\* A table of three rows was sorted, saved, sorted another way and loaded back.
C17_Witness ==
    /\ LoadedWhatWasSaved
    /\ Len(saved_note.table.rows) = 3
    /\ saved_note.table # TableStored
    /\ tab_dataframe = saved_note.table

(***************************************************************************)
(* Properties of the figure code (under SpecFigures).                       *)
(***************************************************************************)
\* A loader was called on a file that holds an array, and returned.
LoadedArray ==
    /\ call.fn \in {"load_image", "_load_image_silent"}
    /\ call.file.exists
    /\ call.file.readable
    /\ returned.called
\* The (H, W) array of the means over the channel axis of an (H, W, 3) array.
ChannelMeans(image) ==
    [shape |-> <<image.shape[1], image.shape[2]>>,
     px |-> [idx \in Indices(<<image.shape[1], image.shape[2]>>) |->
                (image.px[idx \o <<0>>] + image.px[idx \o <<1>>] + image.px[idx \o <<2>>])
                    \div 3]]

\* C18 as the spec states it: for an array of any number of dimensions read
\* from a file, the loader returns a 2-D array, and for shape (H, W, 3) it is
\* the array of means over the channel axis.
C18_AsStated ==
    LoadedArray =>
        /\ returned.value # NoneImage
        /\ Len(returned.value.shape) = 2
        /\ (Len(call.file.array.shape) = 3 /\ call.file.array.shape[3] = 3) =>
               returned.value = ChannelMeans(call.file.array)

\* The chart of the fraction bars was drawn.
ChartDrawn == call.fn = "_render_sheet_content" /\ returned.called
ValidBars == {i \in DOMAIN call.fraction_values : call.fraction_values[i] # NaN}
LargestFraction ==
    CHOOSE v \in {call.fraction_values[i].value : i \in ValidBars} :
        \A i \in ValidBars : call.fraction_values[i].value <= v

\* C19 as the spec states it: the upper y-limit of the fraction chart is 1.15
\* times the largest Fraction that is not NaN, the y-range is [0, 1] when no
\* Fraction is valid, and exactly the bars whose Fraction is not NaN get a
\* value label.
C19_AsStated ==
    ChartDrawn =>
        /\ ValidBars # {} => returned.value.ylim.top = 115 * LargestFraction
        /\ ValidBars = {} => returned.value.ylim = [bottom |-> 0, top |-> 10000]
        /\ returned.value.labels = ValidBars

\* main returned (the wizard, when launched, has shown its first dialog).
MainCalled == call.fn = "main" /\ returned.called
SelectionFileGiven ==
    /\ call.command.args # <<>>
    /\ call.command.exists
    /\ call.command.content = "selection"
PklPathGiven ==
    /\ call.command.args # <<>>
    /\ call.command.exists
    /\ endswith(call.command.args[1], <<".", "p", "k", "l">>)

\* C20 as the spec states it: with the path of a saved selection file on the
\* command line main writes the PDF, PNG and SVG report without the wizard,
\* and in every other case it launches the wizard.
C20_AsStated ==
    MainCalled =>
        IF SelectionFileGiven
        THEN returned.value.written = ReportFiles /\ ~returned.value.wizard
        ELSE returned.value.wizard

\* C20: main writes the PDF, PNG and SVG report without the wizard when its
\* first argument is an existing path that ends in ".pkl" and holds a saved
\* selection; it launches the wizard when there is no argument; with any
\* other argument it reports an error and writes nothing, without the wizard.
C20_MainByArgument ==
    MainCalled =>
        /\ (PklPathGiven /\ call.command.content = "selection") =>
               returned.value.written = ReportFiles /\ ~returned.value.wizard
        /\ call.command.args = <<>> => returned.value.wizard
        /\ (call.command.args # <<>> /\ ~(PklPathGiven /\ call.command.content = "selection")) =>
               returned.value.written = {} /\ ~returned.value.wizard

\* main was given the path of a saved selection file and wrote the report.
C20_Witness ==
    /\ MainCalled
    /\ PklPathGiven
    /\ call.command.content = "selection"
    /\ returned.value.mode = "regenerated"

(***************************************************************************)
(* Properties of loads that do not complete (under SpecPickle).             *)
(***************************************************************************)
\* The load that a note describes could not complete: no readable file, no
\* Filename column, or no Directory column and the prompt cancelled or the
\* corrected file not written.
LoadNotCompleted(note) ==
    /\ note # NoNote
    /\ note.op \in {"load_existing", "load_pickle_from_path"}
    /\ IF note.before = NoneDF THEN TRUE
       ELSE LET df == read_pickle(note.before)
            IN  \/ COL_FILENAME \notin Columns(df)
                \/ /\ COL_DIRECTORY \notin Columns(df)
                   /\ note.directory = "" \/ ~note.write_ok

\* C29: a step that is a load which does not complete leaves the current
\* table, the current path and the unsaved-changes flag of the tab as they
\* were and does not emit pickle_loaded.
C29_FailedLoadChangesNothing ==
    [][LoadNotCompleted(pickle_note') =>
           /\ tab_dataframe' = tab_dataframe
           /\ current_pickle_path' = current_pickle_path
           /\ has_unsaved_changes' = has_unsaved_changes
           /\ ~pickle_note'.emitted]_vars

\* With a table loaded and changed, the load of another file stopped at the
\* write of the corrected file.
C29_Witness ==
    /\ LoadNotCompleted(pickle_note)
    /\ pickle_note.before # NoneDF
    /\ COL_FILENAME \in Columns(read_pickle(pickle_note.before))
    /\ pickle_note.directory # ""
    /\ ~pickle_note.write_ok
    /\ tab_dataframe # NoneDF
    /\ current_pickle_path # pickle_note.path

(***************************************************************************)
(* Properties of the tab's table, path and flag (under SpecPickle).         *)
(***************************************************************************)
\* The tab shows a path and no unsaved changes.
ShownAsSaved == current_pickle_path # None /\ ~has_unsaved_changes
TableIsFileContent ==
    /\ disk[current_pickle_path] # NoneDF
    /\ tab_dataframe = read_pickle(disk[current_pickle_path])
\* The step is a Start New whose save dialog was cancelled or whose write failed.
StartNewNotSaved(note) ==
    /\ note # NoNote
    /\ note.op = "start_new"
    /\ note.chosen = "" \/ ~note.write_ok

\* C22 as the spec states it: whenever the tab has a current path and its
\* unsaved-changes flag is false, its table is the content of the file at that
\* path; and a Start New whose save dialog is cancelled or whose write fails
\* leaves the table, the path and the flag as they were.
C22_AsStated ==
    /\ [](ShownAsSaved => TableIsFileContent)
    /\ [][StartNewNotSaved(pickle_note') =>
              /\ tab_dataframe' = tab_dataframe
              /\ current_pickle_path' = current_pickle_path
              /\ has_unsaved_changes' = has_unsaved_changes]_vars

(***************************************************************************)
(* Properties of a refresh of the Output workspace (under Spec).            *)
(***************************************************************************)
RefreshStep == \E df \in TablePool : RefreshData(df)
AllUnchecked(toggles) == \A g \in DOMAIN toggles : ~toggles[g]
CachedHaveToggles == CachedNames(rendered_sheets) \subseteq DOMAIN group_toggles

\* C30 as the spec states it: every refresh, in Groups or in Singles mode,
\* leaves the group toggles all unchecked, the sheet cache empty and no sheet
\* on display; and in every reachable state each cached group has a toggle.
C30_AsStated ==
    /\ [][RefreshStep =>
              /\ AllUnchecked(group_toggles')
              /\ rendered_sheets' = <<>>
              /\ sheets_layout' = <<>>]_vars
    /\ []CachedHaveToggles

(***************************************************************************)
(* Properties of passes that overlap (under Spec).                          *)
(***************************************************************************)
\* The last _update_preview call began inside a running pass.
PassInsidePass == output_note.preview /\ output_note.inside
NoGroupTwice ==
    \A i, j \in 1..Len(sheets_layout) :
        i # j => sheets_layout[i].group # sheets_layout[j].group

LayoutSheets == {sheets_layout[i] : i \in 1..Len(sheets_layout)}
CachedSheets == {rendered_sheets[i].sheet : i \in 1..Len(rendered_sheets)}

\* C27: in every state the sheet widgets in the preview layout are exactly
\* the sheets held in the cache, each once and one per cached group: after a
\* complete pass, a cancelled pass, a clear, a reorder and a refresh alike.
C27_LayoutIsCache ==
    /\ LayoutSheets = CachedSheets
    /\ Len(sheets_layout) = Len(rendered_sheets)
    /\ Cardinality(LayoutSheets) = Len(sheets_layout)
    /\ Cardinality(CachedNames(rendered_sheets)) = Len(rendered_sheets)
    /\ \A i \in 1..Len(rendered_sheets) :
           rendered_sheets[i].sheet.group = rendered_sheets[i].name
\* A cancelled pass has kept a sheet, after a pass that removed another.
C27_Witness ==
    /\ pc = "idle"
    /\ preview_cancelled
    /\ Len(sheets_layout) >= 2
    /\ Selected(group_toggles) \ CachedNames(rendered_sheets) # {}

(***************************************************************************)
(* A sheet whose rendering fails in a preview pass (under SpecRender).      *)
(***************************************************************************)
\* The rendering of a sheet raised in a pass that had more groups to add.
RenderFailed ==
    /\ output_note.op = "render"
    /\ output_note.raised
    /\ output_note.skipped # {}
\* The groups that pass had still to add are cached and displayed, in
\* Group_ID order.
OthersRendered ==
    /\ output_note.skipped \subseteq CachedNames(rendered_sheets)
    /\ \A g \in output_note.skipped : \E i \in 1..Len(sheets_layout) :
           sheets_layout[i].group = g
    /\ sheets_layout = reorder_sheets(rendered_sheets, sheets_layout)

\* C24 as the spec states it: when the rendering of one group's sheet fails
\* in a pass that adds several groups, the failure stays with that sheet: the
\* sheets of the remaining groups are still rendered, cached and displayed in
\* Group_ID order.
C24_AsStated == RenderFailed => OthersRendered

(***************************************************************************)
(* The table of the Analysis workspace in the Output workspace (under       *)
(* SpecMain).                                                               *)
(***************************************************************************)
\* C23 as the spec states it: when the Analysis workspace holds a table and
\* the Output workspace is activated in Groups mode, the Output workspace
\* then holds that table and has one toggle for each of its groups.
C23_AsStated ==
    [][(SwitchWorkspaceOutput /\ tab_dataframe # NoneDF /\ groups_button) =>
           /\ dataframe' = tab_dataframe
           /\ DOMAIN group_toggles' = DOMAIN update_file_overview(tab_dataframe)]_vars

(***************************************************************************)
(* The Group column of the table of Start New (under SpecInput).            *)
(***************************************************************************)
FileKey(filename) == extract_group_key(filename)
\* Start New has run with grouping on and a key for every selected file.
StartedWithKeys ==
    /\ pickle_note # NoNote
    /\ pickle_note.op = "start_new"
    /\ group_toggle
    /\ \A i \in 1..Len(selected_files) :
           key_is_truthy(FileKey(basename(selected_files[i])))
RowsCarryKeys ==
    \A i \in 1..Len(tab_dataframe.rows) :
        tab_dataframe.rows[i].Group = FileKey(tab_dataframe.rows[i].Filename).key

\* C25 as the spec states it: when grouping is on and every selected file
\* produces a key, each row of the table of Start New has the key of its file
\* as Group, whatever the keys are and also when all the files share one key.
C25_AsStated == StartedWithKeys => RowsCarryKeys

(***************************************************************************)
(* The three image loaders against each other (under SpecFigures).          *)
(***************************************************************************)
LoaderCalled ==
    /\ call.fn \in {"load_image", "_load_image_silent", "_load_image"}
    /\ returned.called

\* C26 as the spec states it: for the same file the loader of the Raw
\* Processing tab, the silent loader of the Output workspace and the loader
\* of generate_figures return the same result: the same array, or no image
\* in exactly the same cases.
C26_AsStated ==
    LoaderCalled =>
        /\ returned.value = raw_load_image(call.file)
        /\ returned.value = load_image_silent(call.file)
        /\ returned.value = load_image(call.file)

(***************************************************************************)
(* The selection file of generate_figures (under SpecFigures).              *)
(***************************************************************************)
\* The interactive run has ended and main has run again on its selection file.
RanAgain == call.fn = "wizard" /\ returned.called /\ "again" \in DOMAIN returned

\* C21: the run from the selection file builds the two figures from the same
\* inputs as the interactive run that wrote the file: the same figure names
\* and thresholds and, for every row label and timepoint, the same file
\* (Directory, Filename) with the same Fraction, or the same absence of a
\* file; and it writes the report into the same folder.
C21_SelectionRoundTrip ==
    RanAgain =>
        /\ returned.again.mode = "regenerated"
        /\ returned.again.figures = returned.value.figures
        /\ returned.again.folder = returned.value.folder
        /\ ReportFiles \subseteq returned.again.written
\* A run with files selected in two rows, one with a NaN Fraction, and a
\* table that lies in the current directory.
C21_Witness ==
    /\ RanAgain
    /\ posix_dirname(call.input.lemon_path) = <<>>
    /\ \E r \in 1..Len(ROW_LABELS) : \E tp \in DOMAIN call.input.lemon_rows[r] :
           call.input.lemon_rows[r][tp].Fraction = NaN
    /\ \E r \in 1..Len(ROW_LABELS) : call.input.lemon_rows[r] = EmptyDict
    /\ returned.again.figures[1].cells[1][1] # NoFile

====
